---- MODULE Spec2Model ----
(***************************************************************************)
(* Room state machine of the WebRTC signaling server (SignalingRoomDO).    *)
(*                                                                         *)
(* One room instance is modelled.  Every handler of the Durable Object     *)
(* (fetch, webSocketMessage, webSocketClose, webSocketError, alarm) is one *)
(* atomic action: all awaits inside a handler are storage operations, and  *)
(* the runtime's input gate admits no other event while they are pending.  *)
(* Time is in milliseconds, as in the source.  The variable out holds the  *)
(* frames written to sockets by the last handler, in the order written     *)
(* (a broadcast writes in ascending peerId order).                         *)
(***************************************************************************)
EXTENDS Integers, Sequences, FiniteSets, TLC

\* ------------------------------------------------------------------------
\* Program constants
\* ------------------------------------------------------------------------
RESUME_TTL_MS == 30000
DELIVERY_RETRY_INTERVAL_MS == 1500
DELIVERY_MAX_ATTEMPTS == 12
DELIVERY_MAX_AGE_MS == 90000
ALIAS_MIN_LEN == 2
ALIAS_MAX_LEN == 32

\* ------------------------------------------------------------------------
\* Bounds of the model
\* ------------------------------------------------------------------------
MaxSockets == 3      \* attaches (one socket, one resume token each)
MaxSends == 1        \* admitted signal.send messages
MaxAdvances == 1     \* clock advances
MaxClientDeliveryId == 1   \* deliveryIds a client may choose: 1..this
MaxRetryAdvances == 11     \* clock advances to the armed timer, in the retry specification
MaxRetrySockets == 2       \* attaches in the retry specification
MaxResumeSockets == 4      \* attaches in the resume specification
MaxEdgeSockets == 2        \* attaches through the front door
MaxIssueTime == 2000       \* last clock value (ms) in the issuer specification
MaxChecks == 4             \* calls of the rate limiter
MaxLimiterTime == 1500     \* last clock value (ms) in the limiter specification
MaxMessagesSends == 2      \* signal.send requests in the messages specification
MaxMessagesSockets == 2    \* attaches in the messages specification
MaxClientSockets == 2      \* sockets the client SDK opens
MaxClientSends == 2        \* sendSignal calls of the client SDK
MaxExpiryEvents == 1       \* timer periods during which clients act, in the expiry specification

\* ------------------------------------------------------------------------
\* Value universes
\* ------------------------------------------------------------------------
ROOM == "R"
Users == {"u1", "u2"}
Payloads == {"offer", "answer"}
RequestIds == {"none", "r1"}     \* "none": the message carries no requestId
NoAlias == <<>>                  \* null alias
NoToken == 0                     \* no resumeToken query parameter
NoDelivery == 0                  \* message without deliveryId
NoAlarm == -1                    \* no alarm armed
NoPeer == 0                      \* a peerId that names no peer
GeneratedIdBase == 100           \* newId("delivery") values are above this

\* names as a client may put them in a token or in discovery.claim;
\* a name is a sequence of characters, <<>> is an absent name
RawNames == { <<" ", "A", "b">>, <<"b", "a">>, <<"a", "@">> }

\* the front door has handled no request
NoEdge == [route |-> "none"]
\* RateLimitDO after construction: empty storage, no request in progress
NoLimiter == [storage |-> << >>, calls |-> << >>, gate |-> 0]
\* SignalingClient after construction: no socket, no peer, no waiter
NoClient ==
  [socket |-> 0, readyState |-> << >>, connectPromise |-> FALSE, peerId |-> "",
   resumeToken |-> 0, shouldReconnect |-> TRUE, reconnectTimer |-> FALSE,
   opening |-> 0, deliveryWaiters |-> << >>, promises |-> << >>, emitted |-> << >>, event |-> << >>]

VARIABLES
  now,            \* Date.now()
  peers,          \* this.peers : peerId -> PeerRecord
  sockets,        \* this.sockets : peerId -> socket
  aliasToPeerId,  \* this.aliasToPeerId : alias -> peerId
  resume,         \* storage "resume:{token}" : token -> ResumeRecord
  pending,        \* storage "pending:{toPeerId}:{deliveryId}" -> PendingDeliveryRecord
  alarmAt,        \* storage alarm, NoAlarm when none
  ws,             \* accepted WebSockets : socket -> [tag, att, status]
  nextPeer,       \* newId("peer")
  nextSock,       \* WebSocketPair / newId("resume") (one of each per attach)
  nextDelivery,   \* newId("delivery")
  out,            \* frames written by the last handler
  admitted,       \* history: the signal.send messages admitted so far, in order
  advances,       \* history: number of clock advances
  edge,           \* the front door: the last request it handled, when, and its response
  limiter,        \* RateLimitDO: storage, the calls received with their progress, input gate
  client          \* SignalingClient (client SDK): its fields, its sockets, the promises of sendSignal

vars == << now, peers, sockets, aliasToPeerId, resume, pending, alarmAt, ws,
           nextPeer, nextSock, nextDelivery, out, admitted, advances, edge, limiter, client >>

\* ------------------------------------------------------------------------
\* Partial functions (Map / storage)
\* ------------------------------------------------------------------------
Put(f, k, v) == [x \in (DOMAIN f) \cup {k} |-> IF x = k THEN v ELSE f[x]]
Remove(f, k) == [x \in (DOMAIN f) \ {k} |-> f[x]]
EmptyMap == [x \in {} |-> 0]
Min(a, b) == IF a <= b THEN a ELSE b
MinAlarm(cur, t) == IF cur = NoAlarm THEN t ELSE Min(cur, t)

\* ------------------------------------------------------------------------
\* normalizeAlias
\* ------------------------------------------------------------------------
LowerCase(c) == CASE c = "A" -> "a" [] c = "B" -> "b" [] OTHER -> c
IsAlnum(c) == c \in {"a", "b", "0", "4"}
IsAliasChar(c) == IsAlnum(c) \/ c \in {"_", ".", "-"}

RECURSIVE TrimLeft(_)
TrimLeft(s) == IF Len(s) > 0 /\ s[1] = " " THEN TrimLeft(Tail(s)) ELSE s
RECURSIVE TrimRight(_)
TrimRight(s) == IF Len(s) > 0 /\ s[Len(s)] = " "
                THEN TrimRight(SubSeq(s, 1, Len(s) - 1)) ELSE s
Trim(s) == TrimRight(TrimLeft(s))

normalizeAlias(alias) ==
  IF alias = <<>> THEN NoAlias
  ELSE LET trimmed == [i \in 1..Len(Trim(alias)) |-> LowerCase(Trim(alias)[i])]
       IN IF Len(trimmed) < ALIAS_MIN_LEN \/ Len(trimmed) > ALIAS_MAX_LEN THEN NoAlias
          ELSE IF ~(IsAlnum(trimmed[1]) /\ \A i \in 2..Len(trimmed) : IsAliasChar(trimmed[i]))
               THEN NoAlias
               ELSE trimmed

\* ------------------------------------------------------------------------
\* Frames
\* ------------------------------------------------------------------------
Frame(s, f) == [sock |-> s, frame |-> f]

toPeerSummary(p, rec) ==
  [peerId |-> p, userId |-> rec.userId, roomId |-> rec.roomId, name |-> rec.alias]

\* listConnectedPeers without the connected test
listConnectedPeers_All(ps, except) ==
  { toPeerSummary(p, ps[p]) : p \in { q \in DOMAIN ps : q # except } }

listConnectedPeers(ps, except) ==
  { toPeerSummary(p, ps[p]) : p \in { q \in DOMAIN ps : ps[q].connected /\ q # except } }

ErrorFrame(code, requestId) == [type |-> "error", code |-> code, requestId |-> requestId]

RECURSIVE SetToSeq(_)
SetToSeq(S) == IF S = {} THEN <<>>
               ELSE LET m == CHOOSE x \in S : \A y \in S : x <= y
                    IN <<m>> \o SetToSeq(S \ {m})

\* broadcast that does not skip exceptPeerId
broadcast_ToAll(socks, f, except) ==
  LET ids == SetToSeq(DOMAIN socks)
  IN [i \in 1..Len(ids) |-> Frame(socks[ids[i]], f)]

\* broadcast(payload, exceptPeerId): one frame per entry of this.sockets
broadcast(socks, f, except) ==
  LET ids == SetToSeq({ p \in DOMAIN socks : p # except })
  IN [i \in 1..Len(ids) |-> Frame(socks[ids[i]], f)]

\* ------------------------------------------------------------------------
\* persistSocketAttachment
\* ------------------------------------------------------------------------
Attachment(p, rec) ==
  [peerId |-> p, userId |-> rec.userId, roomId |-> rec.roomId, alias |-> rec.alias,
   resumeToken |-> rec.resumeToken, resumeExpiresAt |-> rec.resumeExpiresAt]

persistSocketAttachment(w, ps, socks, p) ==
  IF p \in DOMAIN ps /\ p \in DOMAIN socks
  THEN [w EXCEPT ![socks[p]].att = Attachment(p, ps[p])]
  ELSE w

\* peerIdForSocket: the tag given at acceptWebSocket
peerIdForSocket(s) == ws[s].tag

\* ------------------------------------------------------------------------
\* assignAlias: result [err, peers, aliases, ws]; err = "" on success
\* ------------------------------------------------------------------------
assignAlias(ps, am, w, socks, p, alias) ==
  IF p \notin DOMAIN ps
  THEN [err |-> "SESSION_NOT_FOUND", peers |-> ps, aliases |-> am, ws |-> w]
  ELSE IF alias \in DOMAIN am /\ am[alias] # p
  THEN [err |-> "ALIAS_TAKEN", peers |-> ps, aliases |-> am, ws |-> w]
  ELSE LET released == IF ps[p].alias # NoAlias /\ ps[p].alias \in DOMAIN am
                          /\ am[ps[p].alias] = p
                       THEN Remove(am, ps[p].alias) ELSE am
           ps2 == [ps EXCEPT ![p].alias = alias]
       IN [err |-> "", peers |-> ps2, aliases |-> Put(released, alias, p),
           ws |-> persistSocketAttachment(w, ps2, socks, p)]

\* ------------------------------------------------------------------------
\* tryDeliverPending: result [del, rec, frames]
\* ------------------------------------------------------------------------
SignalMessage(rec) ==
  [type |-> "signal.message", deliveryId |-> rec.deliveryId,
   fromPeerId |-> rec.fromPeerId, fromUserId |-> rec.fromUserId,
   toPeerId |-> rec.toPeerId, payload |-> rec.payload, sentAt |-> rec.sentAt]

\* tryDeliverPending looking up the socket of the sender instead of the recipient
tryDeliverPending_ToSender(rec, socks, t) ==
  IF rec.expiresAt <= t
  THEN [del |-> TRUE, rec |-> rec, frames |-> <<>>]
  ELSE LET has == rec.fromPeerId \in DOMAIN socks
       IN [del |-> FALSE,
           rec |-> [rec EXCEPT !.attempts = IF has THEN @ + 1 ELSE @,
                               !.nextRetryAt = t + DELIVERY_RETRY_INTERVAL_MS],
           frames |-> IF has THEN << Frame(socks[rec.fromPeerId], SignalMessage(rec)) >>
                      ELSE <<>>]

\* tryDeliverPending leaving nextRetryAt as it was
tryDeliverPending_NoReschedule(rec, socks, t) ==
  IF rec.expiresAt <= t
  THEN [del |-> TRUE, rec |-> rec, frames |-> <<>>]
  ELSE LET has == rec.toPeerId \in DOMAIN socks
       IN [del |-> FALSE,
           rec |-> [rec EXCEPT !.attempts = IF has THEN @ + 1 ELSE @],
           frames |-> IF has THEN << Frame(socks[rec.toPeerId], SignalMessage(rec)) >>
                      ELSE <<>>]

\* tryDeliverPending counting an attempt whether or not a frame is written
tryDeliverPending_CountAlways(rec, socks, t) ==
  IF rec.expiresAt <= t
  THEN [del |-> TRUE, rec |-> rec, frames |-> <<>>]
  ELSE LET has == rec.toPeerId \in DOMAIN socks
       IN [del |-> FALSE,
           rec |-> [rec EXCEPT !.attempts = @ + 1,
                               !.nextRetryAt = t + DELIVERY_RETRY_INTERVAL_MS],
           frames |-> IF has THEN << Frame(socks[rec.toPeerId], SignalMessage(rec)) >>
                      ELSE <<>>]

tryDeliverPending(rec, socks, t) ==
  IF rec.expiresAt <= t
  THEN [del |-> TRUE, rec |-> rec, frames |-> <<>>]
  ELSE LET has == rec.toPeerId \in DOMAIN socks
       IN [del |-> FALSE,
           rec |-> [rec EXCEPT !.attempts = IF has THEN @ + 1 ELSE @,
                               !.nextRetryAt = t + DELIVERY_RETRY_INTERVAL_MS],
           frames |-> IF has THEN << Frame(socks[rec.toPeerId], SignalMessage(rec)) >>
                      ELSE <<>>]

pendingStorageKey(toPeerId, deliveryId) == << toPeerId, deliveryId >>

\* storage.list order: ascending key
KeyLeq(a, b) == a[1] < b[1] \/ (a[1] = b[1] /\ a[2] <= b[2])
RECURSIVE KeySeq(_)
KeySeq(S) == IF S = {} THEN <<>>
             ELSE LET m == CHOOSE k \in S : \A j \in S : KeyLeq(k, j)
                  IN <<m>> \o KeySeq(S \ {m})

\* ------------------------------------------------------------------------
\* replayPendingForPeer: result [pending, frames]
\* ------------------------------------------------------------------------
RECURSIVE ReplayLoop(_, _, _, _, _)
ReplayLoop(keys, snapshot, acc, socks, t) ==
  IF keys = <<>> THEN acc
  ELSE LET k == Head(keys)
           record == snapshot[k]
       IN IF record.expiresAt <= t
          THEN ReplayLoop(Tail(keys), snapshot,
                          [acc EXCEPT !.pending = Remove(@, k)], socks, t)
          ELSE LET d == tryDeliverPending(record, socks, t)
               IN ReplayLoop(Tail(keys), snapshot,
                             [pending |-> IF d.del THEN Remove(acc.pending, k)
                                          ELSE Put(acc.pending, k, d.rec),
                              frames |-> acc.frames \o d.frames], socks, t)

\* replayPendingForPeer leaving every record for the timer
replayPendingForPeer_Skip(pend, socks, p, t) == [pending |-> pend, frames |-> <<>>]

replayPendingForPeer(pend, socks, p, t) ==
  ReplayLoop(KeySeq({ k \in DOMAIN pend : k[1] = p }), pend,
             [pending |-> pend, frames |-> <<>>], socks, t)

\* scheduleAlarmAt keeping the later of the two times
scheduleAlarmAt_Latest(current, at) == IF current = NoAlarm \/ at > current THEN at ELSE current

\* scheduleAlarmAt that never arms the timer
scheduleAlarmAt_Never(current, at) == current

\* scheduleAlarmAt
scheduleAlarmAt(current, at) == IF current = NoAlarm \/ at < current THEN at ELSE current

\* ------------------------------------------------------------------------
\* tryResumeByToken: result [peer, peers, resume]; peer = NoPeer when null
\* ------------------------------------------------------------------------
tryResumeByToken(ps, rs, token, userId, roomId, t) ==
  IF token \notin DOMAIN rs
  THEN [peer |-> NoPeer, peers |-> ps, resume |-> rs]
  ELSE LET record == rs[token] IN
    IF record.expiresAt <= t
    THEN [peer |-> NoPeer, peers |-> ps, resume |-> Remove(rs, token)]
    ELSE IF record.userId # userId \/ record.roomId # roomId
    THEN [peer |-> NoPeer, peers |-> ps, resume |-> rs]
    ELSE LET base == IF record.peerId \in DOMAIN ps THEN ps[record.peerId]
                     ELSE [userId |-> record.userId, roomId |-> record.roomId,
                           alias |-> record.alias, resumeToken |-> record.token,
                           resumeExpiresAt |-> record.expiresAt,
                           connected |-> FALSE, lastSeenAt |-> t]
             peer == [base EXCEPT !.alias = record.alias, !.userId = record.userId,
                                  !.roomId = record.roomId,
                                  !.resumeToken = record.token,
                                  !.resumeExpiresAt = record.expiresAt]
         IN [peer |-> record.peerId, peers |-> Put(ps, record.peerId, peer),
             resume |-> Remove(rs, token)]

createNewPeer(userId, roomId, token, t) ==
  [userId |-> userId, roomId |-> roomId, alias |-> NoAlias, resumeToken |-> token,
   resumeExpiresAt |-> t + RESUME_TTL_MS, connected |-> FALSE, lastSeenAt |-> t]

\* ------------------------------------------------------------------------
\* fetch: a WebSocket upgrade forwarded by the front door with the verified
\* claims (userId, room, name) and the resumeToken query parameter
\* ------------------------------------------------------------------------
\* the handler on the current tables: the tables, the timer, the id counters
\* and the frames it leaves
AttachEffect(userId, name, token) ==
  LET aliasFromToken == normalizeAlias(name)
      r == IF token # NoToken
           THEN tryResumeByToken(peers, resume, token, userId, ROOM, now)
           ELSE [peer |-> NoPeer, peers |-> peers, resume |-> resume]
      resumed == r.peer # NoPeer
      wasConnected == resumed /\ r.peers[r.peer].connected
      pid == IF resumed THEN r.peer ELSE nextPeer
      peer0 == IF resumed THEN r.peers[pid] ELSE createNewPeer(userId, ROOM, nextSock, now)
      incomingAlias == IF aliasFromToken # NoAlias THEN aliasFromToken ELSE peer0.alias
      superseded == pid \in DOMAIN sockets
      closeOut == IF superseded
                  THEN << Frame(sockets[pid], [type |-> "close", code |-> 1012]) >>
                  ELSE <<>>
      ws1 == IF superseded THEN [ws EXCEPT ![sockets[pid]].status = "closing"] ELSE ws
      expiresAt == now + RESUME_TTL_MS
      peer1 == [peer0 EXCEPT !.resumeToken = nextSock, !.resumeExpiresAt = expiresAt,
                             !.connected = TRUE, !.lastSeenAt = now]
      server == nextSock
      \* acceptWebSocket(server, [peerId]); user and via are history: the verified
      \* user of this upgrade and the resume token that re-adopted the peer (NoToken
      \* for a fresh peer).  The attachment is written by persistSocketAttachment
      \* below in this same handler.
      ws2 == Put(ws1, server, [tag |-> pid, att |-> Attachment(pid, peer1),
                               status |-> "open", user |-> userId,
                               via |-> IF resumed THEN token ELSE NoToken])
      socks2 == Put(sockets, pid, server)
      ps2 == Put(r.peers, pid, peer1)
      a == IF incomingAlias # NoAlias
           THEN assignAlias(ps2, aliasToPeerId, ws2, socks2, pid, incomingAlias)
           ELSE [err |-> "", peers |-> ps2, aliases |-> aliasToPeerId, ws |-> ws2]
      errOut == IF a.err # "" THEN << Frame(server, ErrorFrame(a.err, "none")) >> ELSE <<>>
      ws3 == persistSocketAttachment(a.ws, a.peers, socks2, pid)
      welcome == [type |-> "session.welcome", peerId |-> pid,
                  userId |-> a.peers[pid].userId, roomId |-> a.peers[pid].roomId,
                  resumeToken |-> a.peers[pid].resumeToken,
                  resumeExpiresAt |-> a.peers[pid].resumeExpiresAt,
                  peers |-> listConnectedPeers(a.peers, pid)]
      joined == IF ~wasConnected
                THEN broadcast(socks2, [type |-> "presence.joined",
                                        peer |-> toPeerSummary(pid, a.peers[pid])], pid)
                ELSE <<>>
      rp == replayPendingForPeer(pending, socks2, pid, now)
  IN [peers |-> a.peers, sockets |-> socks2, aliases |-> a.aliases,
      resume |-> r.resume, pending |-> rp.pending, ws |-> ws3,
      alarmAt |-> scheduleAlarmAt(alarmAt, expiresAt),
      nextPeer |-> IF resumed THEN nextPeer ELSE nextPeer + 1,
      nextSock |-> nextSock + 1,
      out |-> closeOut \o errOut \o << Frame(server, welcome) >> \o joined \o rp.frames]

fetch(userId, name, token) ==
  \E e \in { AttachEffect(userId, name, token) } :
     /\ peers' = e.peers
     /\ sockets' = e.sockets
     /\ aliasToPeerId' = e.aliases
     /\ resume' = e.resume
     /\ pending' = e.pending
     /\ ws' = e.ws
     /\ alarmAt' = e.alarmAt
     /\ nextPeer' = e.nextPeer
     /\ nextSock' = e.nextSock
     /\ out' = e.out
     /\ UNCHANGED << now, nextDelivery, admitted, advances, limiter, client >>

\* an upgrade that reaches the room with verified headers; the front door that
\* forwarded it is not observed
Attach(userId, name, token) == fetch(userId, name, token) /\ UNCHANGED edge

\* ------------------------------------------------------------------------
\* handleSocketDeparture (webSocketClose and webSocketError)
\* ------------------------------------------------------------------------
ResumeRecordOf(p, rec) ==
  [token |-> rec.resumeToken, peerId |-> p, userId |-> rec.userId,
   roomId |-> rec.roomId, alias |-> rec.alias, expiresAt |-> rec.resumeExpiresAt]

\* handleSocketDeparture leaving the entry of the peer in the socket table
handleSocketDeparture_KeepEntry(s) ==
  LET peerId == peerIdForSocket(s) IN
  IF peerId \notin DOMAIN peers \/ ~peers[peerId].connected
  THEN /\ out' = <<>>
       /\ UNCHANGED << peers, sockets, resume, alarmAt >>
  ELSE LET peer == [peers[peerId] EXCEPT !.connected = FALSE, !.lastSeenAt = now]
       IN /\ sockets' = sockets
          /\ peers' = [peers EXCEPT ![peerId] = peer]
          /\ resume' = Put(resume, peer.resumeToken, ResumeRecordOf(peerId, peer))
          /\ alarmAt' = scheduleAlarmAt(alarmAt, peer.resumeExpiresAt)
          /\ out' = broadcast(Remove(sockets, peerId),
                              [type |-> "presence.left", peerId |-> peerId,
                               userId |-> peer.userId], NoPeer)

handleSocketDeparture(s) ==
  LET peerId == peerIdForSocket(s) IN
  IF peerId \notin DOMAIN peers
  THEN /\ out' = <<>>
       /\ UNCHANGED << peers, sockets, resume, alarmAt >>
  ELSE IF ~peers[peerId].connected
  THEN /\ sockets' = Remove(sockets, peerId)
       /\ out' = <<>>
       /\ UNCHANGED << peers, resume, alarmAt >>
  ELSE LET peer == [peers[peerId] EXCEPT !.connected = FALSE, !.lastSeenAt = now]
       IN /\ sockets' = Remove(sockets, peerId)
          /\ peers' = [peers EXCEPT ![peerId] = peer]
          /\ resume' = Put(resume, peer.resumeToken, ResumeRecordOf(peerId, peer))
          /\ alarmAt' = scheduleAlarmAt(alarmAt, peer.resumeExpiresAt)
          /\ out' = broadcast(Remove(sockets, peerId),
                              [type |-> "presence.left", peerId |-> peerId,
                               userId |-> peer.userId], NoPeer)

\* the close event of a socket: the client closed it, or completed the close
\* handshake of a socket the room closed, or the transport went away after an
\* error event
webSocketClose(s) ==
  /\ ws[s].status \in {"open", "closing", "errored"}
  /\ handleSocketDeparture(s)
  /\ ws' = [ws EXCEPT ![s].status = "closed"]
  /\ UNCHANGED << now, aliasToPeerId, pending, nextPeer, nextSock, nextDelivery,
                  admitted, advances, edge, limiter, client >>

webSocketError(s) ==
  /\ ws[s].status = "open"
  /\ handleSocketDeparture(s)
  /\ ws' = [ws EXCEPT ![s].status = "errored"]
  /\ UNCHANGED << now, aliasToPeerId, pending, nextPeer, nextSock, nextDelivery,
                  admitted, advances, edge, limiter, client >>

\* ------------------------------------------------------------------------
\* webSocketMessage
\* ------------------------------------------------------------------------
\* lines 211-221: the socket's peer is gone or not connected
SessionMissing(s) ==
  peerIdForSocket(s) \notin DOMAIN peers \/ ~peers[peerIdForSocket(s)].connected

Touch(ps, p) == [ps EXCEPT ![p].lastSeenAt = now]

ReplyOnly(frames) ==
  /\ out' = frames
  /\ UNCHANGED << now, sockets, aliasToPeerId, resume, pending, alarmAt, ws,
                  nextPeer, nextSock, nextDelivery, admitted, advances, edge, limiter, client >>

Reject(s) ==
  /\ ReplyOnly(<< Frame(s, ErrorFrame("SESSION_NOT_FOUND", "none")) >>)
  /\ UNCHANGED peers

\* a binary frame, or text that is not a JSON object with a string type
BadMessage(s) ==
  /\ ws[s].status = "open"
  /\ ReplyOnly(<< Frame(s, ErrorFrame("BAD_MESSAGE", "none")) >>)
  /\ UNCHANGED peers

HeartbeatPing(s, ts) ==
  /\ ws[s].status = "open"
  /\ IF SessionMissing(s) THEN Reject(s)
     ELSE /\ peers' = Touch(peers, peerIdForSocket(s))
          /\ ReplyOnly(<< Frame(s, [type |-> "heartbeat.pong", ts |-> ts]) >>)

\* a message of unknown type; its requestId is not passed to sendError
Unsupported(s, requestId) ==
  /\ ws[s].status = "open"
  /\ IF SessionMissing(s) THEN Reject(s)
     ELSE /\ peers' = Touch(peers, peerIdForSocket(s))
          /\ ReplyOnly(<< Frame(s, ErrorFrame("UNSUPPORTED", "none")) >>)

DiscoveryClaim(s, name, requestId) ==
  /\ ws[s].status = "open"
  /\ IF SessionMissing(s) THEN Reject(s)
     ELSE LET peerId == peerIdForSocket(s)
              normalized == normalizeAlias(name)
              ps1 == Touch(peers, peerId)
              a == assignAlias(ps1, aliasToPeerId, ws, sockets, peerId, normalized)
          IN IF normalized = NoAlias
             THEN /\ peers' = ps1
                  /\ ReplyOnly(<< Frame(s, ErrorFrame("ALIAS_INVALID", requestId)) >>)
             ELSE IF a.err # ""
             THEN /\ peers' = ps1
                  /\ ReplyOnly(<< Frame(s, ErrorFrame(a.err, requestId)) >>)
             ELSE /\ peers' = a.peers
                  /\ aliasToPeerId' = a.aliases
                  /\ ws' = a.ws
                  /\ out' = << Frame(s, [type |-> "discovery.claimed", name |-> normalized,
                                         userId |-> a.peers[peerId].userId,
                                         requestId |-> requestId]) >>
                            \o broadcast(sockets,
                                         [type |-> "presence.joined",
                                          peer |-> toPeerSummary(peerId, a.peers[peerId])],
                                         peerId)
                  /\ UNCHANGED << now, sockets, resume, pending, alarmAt, nextPeer,
                                  nextSock, nextDelivery, admitted, advances, edge, limiter, client >>

DiscoveryResolve(s, name, requestId) ==
  /\ ws[s].status = "open"
  /\ IF SessionMissing(s) THEN Reject(s)
     ELSE LET normalized == normalizeAlias(name)
              found == normalized \in DOMAIN aliasToPeerId
                       /\ aliasToPeerId[normalized] \in DOMAIN peers
              target == aliasToPeerId[normalized]
          IN /\ peers' = Touch(peers, peerIdForSocket(s))
             /\ IF normalized = NoAlias
                THEN ReplyOnly(<< Frame(s, ErrorFrame("ALIAS_INVALID", requestId)) >>)
                ELSE ReplyOnly(<< Frame(s,
                       [type |-> "discovery.resolved", requestId |-> requestId,
                        name |-> normalized,
                        userId |-> IF found THEN peers[target].userId ELSE "",
                        peers |-> IF found /\ peers[target].connected
                                  THEN { toPeerSummary(target, peers[target]) }
                                  ELSE {}]) >>)

AdmittedSend(s, deliveryId, toPeerId, payload) ==
  [sock |-> s, deliveryId |-> deliveryId, toPeerId |-> toPeerId, payload |-> payload]

SignalAcked(deliveryId, byPeerId, at) ==
  [type |-> "signal.acked", deliveryId |-> deliveryId, byPeerId |-> byPeerId, at |-> at]

\* signal.send admitting a delivery to a peerId the room does not know
SignalSend_AnyTarget(s, toPeerId, payload, msgDeliveryId, requestId) ==
  /\ ws[s].status = "open"
  /\ IF SessionMissing(s) THEN Reject(s)
     ELSE LET peerId == peerIdForSocket(s)
              ps1 == Touch(peers, peerId)
          IN IF FALSE
             THEN /\ peers' = ps1
                  /\ ReplyOnly(<< Frame(s, ErrorFrame("TARGET_NOT_FOUND", requestId)) >>)
             ELSE LET deliveryId == IF msgDeliveryId # NoDelivery THEN msgDeliveryId
                                    ELSE GeneratedIdBase + nextDelivery
                      record == [deliveryId |-> deliveryId, fromPeerId |-> peerId,
                                 fromUserId |-> ps1[peerId].userId, toPeerId |-> toPeerId,
                                 payload |-> payload, sentAt |-> now, attempts |-> 0,
                                 nextRetryAt |-> now,
                                 expiresAt |-> now + DELIVERY_MAX_AGE_MS]
                      key == pendingStorageKey(toPeerId, deliveryId)
                      stored == Put(pending, key, record)
                      d == tryDeliverPending(record, sockets, now)
                  IN /\ peers' = ps1
                     /\ pending' = IF d.del THEN Remove(stored, key) ELSE Put(stored, key, d.rec)
                     /\ out' = d.frames \o << Frame(s, SignalAcked(deliveryId, peerId, now)) >>
                     /\ alarmAt' = scheduleAlarmAt(alarmAt, now + DELIVERY_RETRY_INTERVAL_MS)
                     /\ nextDelivery' = IF msgDeliveryId # NoDelivery THEN nextDelivery
                                        ELSE nextDelivery + 1
                     /\ admitted' = Append(admitted,
                                             AdmittedSend(s, deliveryId, toPeerId, payload))
                     /\ UNCHANGED << now, sockets, aliasToPeerId, resume, ws, nextPeer,
                                     nextSock, advances, edge, limiter, client >>

SignalSend(s, toPeerId, payload, msgDeliveryId, requestId) ==
  /\ ws[s].status = "open"
  /\ IF SessionMissing(s) THEN Reject(s)
     ELSE LET peerId == peerIdForSocket(s)
              ps1 == Touch(peers, peerId)
          IN IF toPeerId \notin DOMAIN peers
             THEN /\ peers' = ps1
                  /\ ReplyOnly(<< Frame(s, ErrorFrame("TARGET_NOT_FOUND", requestId)) >>)
             ELSE LET deliveryId == IF msgDeliveryId # NoDelivery THEN msgDeliveryId
                                    ELSE GeneratedIdBase + nextDelivery
                      record == [deliveryId |-> deliveryId, fromPeerId |-> peerId,
                                 fromUserId |-> ps1[peerId].userId, toPeerId |-> toPeerId,
                                 payload |-> payload, sentAt |-> now, attempts |-> 0,
                                 nextRetryAt |-> now,
                                 expiresAt |-> now + DELIVERY_MAX_AGE_MS]
                      key == pendingStorageKey(toPeerId, deliveryId)
                      stored == Put(pending, key, record)
                      d == tryDeliverPending(record, sockets, now)
                  IN /\ peers' = ps1
                     /\ pending' = IF d.del THEN Remove(stored, key) ELSE Put(stored, key, d.rec)
                     /\ out' = d.frames \o << Frame(s, SignalAcked(deliveryId, peerId, now)) >>
                     /\ alarmAt' = scheduleAlarmAt(alarmAt, now + DELIVERY_RETRY_INTERVAL_MS)
                     /\ nextDelivery' = IF msgDeliveryId # NoDelivery THEN nextDelivery
                                        ELSE nextDelivery + 1
                     /\ admitted' = Append(admitted,
                                             AdmittedSend(s, deliveryId, toPeerId, payload))
                     /\ UNCHANGED << now, sockets, aliasToPeerId, resume, ws, nextPeer,
                                     nextSock, advances, edge, limiter, client >>

\* signal.ack answering an ack that finds no record with an error frame
SignalAck_ReplyWhenUnknown(s, deliveryId) ==
  /\ ws[s].status = "open"
  /\ IF SessionMissing(s) THEN Reject(s)
     ELSE LET peerId == peerIdForSocket(s)
              pendingKey == pendingStorageKey(peerId, deliveryId)
          IN /\ peers' = Touch(peers, peerId)
             /\ IF pendingKey \notin DOMAIN pending
                THEN ReplyOnly(<< Frame(s, ErrorFrame("UNKNOWN_DELIVERY", "none")) >>)
                ELSE LET rec == pending[pendingKey] IN
                     /\ pending' = Remove(pending, pendingKey)
                     /\ out' = IF rec.fromPeerId \in DOMAIN sockets
                               THEN << Frame(sockets[rec.fromPeerId],
                                             SignalAcked(rec.deliveryId, peerId, now)) >>
                               ELSE <<>>
                     /\ UNCHANGED << now, sockets, aliasToPeerId, resume, alarmAt, ws,
                                     nextPeer, nextSock, nextDelivery, admitted, advances, edge, limiter, client >>

\* signal.ack looking the delivery up by its deliveryId alone
SignalAck_AnyRecipient(s, deliveryId) ==
  /\ ws[s].status = "open"
  /\ IF SessionMissing(s) THEN Reject(s)
     ELSE LET peerId == peerIdForSocket(s)
              found == { k \in DOMAIN pending : k[2] = deliveryId }
          IN /\ peers' = Touch(peers, peerId)
             /\ IF found = {}
                THEN ReplyOnly(<<>>)
                ELSE LET pendingKey == CHOOSE k \in found : TRUE
                         rec == pending[pendingKey] IN
                     /\ pending' = Remove(pending, pendingKey)
                     /\ out' = IF rec.fromPeerId \in DOMAIN sockets
                               THEN << Frame(sockets[rec.fromPeerId],
                                             SignalAcked(rec.deliveryId, peerId, now)) >>
                               ELSE <<>>
                     /\ UNCHANGED << now, sockets, aliasToPeerId, resume, alarmAt, ws,
                                     nextPeer, nextSock, nextDelivery, admitted, advances, edge, limiter, client >>

SignalAck(s, deliveryId) ==
  /\ ws[s].status = "open"
  /\ IF SessionMissing(s) THEN Reject(s)
     ELSE LET peerId == peerIdForSocket(s)
              pendingKey == pendingStorageKey(peerId, deliveryId)
          IN /\ peers' = Touch(peers, peerId)
             /\ IF pendingKey \notin DOMAIN pending
                THEN ReplyOnly(<<>>)
                ELSE LET rec == pending[pendingKey] IN
                     /\ pending' = Remove(pending, pendingKey)
                     /\ out' = IF rec.fromPeerId \in DOMAIN sockets
                               THEN << Frame(sockets[rec.fromPeerId],
                                             SignalAcked(rec.deliveryId, peerId, now)) >>
                               ELSE <<>>
                     /\ UNCHANGED << now, sockets, aliasToPeerId, resume, alarmAt, ws,
                                     nextPeer, nextSock, nextDelivery, admitted, advances, edge, limiter, client >>

\* ------------------------------------------------------------------------
\* alarm
\* ------------------------------------------------------------------------
\* lines 351-369; acc = [pending, frames, nextAlarm]
RECURSIVE AlarmPendingLoop(_, _, _, _, _)
AlarmPendingLoop(keys, snapshot, acc, socks, t) ==
  IF keys = <<>> THEN acc
  ELSE LET k == Head(keys)
           record == snapshot[k]
           rest == Tail(keys)
       IN IF record.expiresAt <= t
          THEN AlarmPendingLoop(rest, snapshot, [acc EXCEPT !.pending = Remove(@, k)], socks, t)
          ELSE IF record.nextRetryAt <= t /\ record.attempts >= DELIVERY_MAX_ATTEMPTS
          THEN AlarmPendingLoop(rest, snapshot, [acc EXCEPT !.pending = Remove(@, k)], socks, t)
          ELSE LET due == record.nextRetryAt <= t
                   d == IF due THEN tryDeliverPending(record, socks, t)
                        ELSE [del |-> FALSE, rec |-> record, frames |-> <<>>]
                   next1 == MinAlarm(acc.nextAlarm, d.rec.nextRetryAt)
               IN AlarmPendingLoop(rest, snapshot,
                    [pending |-> IF d.del THEN Remove(acc.pending, k)
                                 ELSE Put(acc.pending, k, d.rec),
                     frames |-> acc.frames \o d.frames,
                     nextAlarm |-> Min(next1, d.rec.expiresAt)], socks, t)

\* the resume loop removing the peer of an expired record also while it is
\* connected
RECURSIVE AlarmResumeLoop_AnyPeer(_, _, _, _)
AlarmResumeLoop_AnyPeer(tokens, snapshot, acc, t) ==
  IF tokens = <<>> THEN acc
  ELSE LET record == snapshot[Head(tokens)]
           rest == Tail(tokens)
           p == record.peerId
       IN IF record.expiresAt <= t
          THEN LET gc == p \in DOMAIN acc.peers /\ acc.peers[p].resumeToken = record.token
                   al == acc.peers[p].alias
                   release == gc /\ al # NoAlias /\ al \in DOMAIN acc.aliases
                              /\ acc.aliases[al] = p
               IN AlarmResumeLoop_AnyPeer(rest, snapshot,
                    [resume |-> Remove(acc.resume, record.token),
                     peers |-> IF gc THEN Remove(acc.peers, p) ELSE acc.peers,
                     aliases |-> IF release THEN Remove(acc.aliases, al) ELSE acc.aliases,
                     nextAlarm |-> acc.nextAlarm], t)
          ELSE AlarmResumeLoop_AnyPeer(rest, snapshot,
                 [acc EXCEPT !.nextAlarm = MinAlarm(@, record.expiresAt)], t)

\* lines 371-386; acc = [resume, peers, aliases, nextAlarm]
RECURSIVE AlarmResumeLoop(_, _, _, _)
AlarmResumeLoop(tokens, snapshot, acc, t) ==
  IF tokens = <<>> THEN acc
  ELSE LET record == snapshot[Head(tokens)]
           rest == Tail(tokens)
           p == record.peerId
       IN IF record.expiresAt <= t
          THEN LET gc == p \in DOMAIN acc.peers /\ ~acc.peers[p].connected
                         /\ acc.peers[p].resumeToken = record.token
                   al == acc.peers[p].alias
                   release == gc /\ al # NoAlias /\ al \in DOMAIN acc.aliases
                              /\ acc.aliases[al] = p
               IN AlarmResumeLoop(rest, snapshot,
                    [resume |-> Remove(acc.resume, record.token),
                     peers |-> IF gc THEN Remove(acc.peers, p) ELSE acc.peers,
                     aliases |-> IF release THEN Remove(acc.aliases, al) ELSE acc.aliases,
                     nextAlarm |-> acc.nextAlarm], t)
          ELSE AlarmResumeLoop(rest, snapshot,
                 [acc EXCEPT !.nextAlarm = MinAlarm(@, record.expiresAt)], t)

\* one run of the handler on given tables at time t:
\* result [pending, frames, resume, peers, aliases, nextAlarm]
AlarmRun(pend, rs, ps, am, socks, t) ==
  LET a == AlarmPendingLoop(KeySeq(DOMAIN pend), pend,
                            [pending |-> pend, frames |-> <<>>, nextAlarm |-> NoAlarm],
                            socks, t)
      b == AlarmResumeLoop(SetToSeq(DOMAIN rs), rs,
                           [resume |-> rs, peers |-> ps,
                            aliases |-> am, nextAlarm |-> a.nextAlarm], t)
  IN [pending |-> a.pending, frames |-> a.frames, resume |-> b.resume,
      peers |-> b.peers, aliases |-> b.aliases, nextAlarm |-> b.nextAlarm]

alarm ==
  /\ alarmAt # NoAlarm
  /\ alarmAt <= now
  /\ LET r == AlarmRun(pending, resume, peers, aliasToPeerId, sockets, now)
     IN /\ pending' = r.pending
        /\ out' = r.frames
        /\ resume' = r.resume
        /\ peers' = r.peers
        /\ aliasToPeerId' = r.aliases
        /\ alarmAt' = r.nextAlarm
  /\ UNCHANGED << now, sockets, ws, nextPeer, nextSock, nextDelivery, admitted, advances, edge, limiter, client >>

\* ------------------------------------------------------------------------
\* ensureHydrated after the instance was evicted from memory: the in-memory
\* tables are rebuilt from the live sockets and the resume store
\* ------------------------------------------------------------------------
\* state.getWebSockets(): the accepted sockets that are still connected
getWebSockets == { s \in DOMAIN ws : ws[s].status = "open" }

Orders(S) == { q \in [1..Cardinality(S) -> S] : \A i, j \in DOMAIN q : q[i] = q[j] => i = j }

\* lines 414-437; acc = [peers, sockets, aliases]
RECURSIVE HydrateSockets(_, _, _)
HydrateSockets(order, acc, t) ==
  IF order = <<>> THEN acc
  ELSE LET s == Head(order)
           attachment == ws[s].att
           peer == [userId |-> attachment.userId, roomId |-> attachment.roomId,
                    alias |-> attachment.alias, resumeToken |-> attachment.resumeToken,
                    resumeExpiresAt |-> attachment.resumeExpiresAt,
                    connected |-> TRUE, lastSeenAt |-> t]
       IN HydrateSockets(Tail(order),
            [peers |-> Put(acc.peers, attachment.peerId, peer),
             sockets |-> Put(acc.sockets, attachment.peerId, s),
             aliases |-> IF peer.alias # NoAlias
                         THEN Put(acc.aliases, peer.alias, attachment.peerId)
                         ELSE acc.aliases], t)

\* lines 439-463; acc = [peers, aliases, resume]
RECURSIVE HydrateResume(_, _, _, _)
HydrateResume(tokens, snapshot, acc, t) ==
  IF tokens = <<>> THEN acc
  ELSE LET record == snapshot[Head(tokens)]
           rest == Tail(tokens)
       IN IF record.expiresAt <= t
          THEN HydrateResume(rest, snapshot,
                             [acc EXCEPT !.resume = Remove(@, record.token)], t)
          ELSE HydrateResume(rest, snapshot,
                 [resume |-> acc.resume,
                  peers |-> IF record.peerId \notin DOMAIN acc.peers
                            THEN Put(acc.peers, record.peerId,
                                     [userId |-> record.userId, roomId |-> record.roomId,
                                      alias |-> record.alias, resumeToken |-> record.token,
                                      resumeExpiresAt |-> record.expiresAt,
                                      connected |-> FALSE, lastSeenAt |-> t])
                            ELSE acc.peers,
                  aliases |-> IF record.alias # NoAlias /\ record.alias \notin DOMAIN acc.aliases
                              THEN Put(acc.aliases, record.alias, record.peerId)
                              ELSE acc.aliases], t)

ensureHydrated(order) ==
  LET a == HydrateSockets(order,
                          [peers |-> EmptyMap, sockets |-> EmptyMap, aliases |-> EmptyMap], now)
      b == HydrateResume(SetToSeq(DOMAIN resume), resume,
                         [peers |-> a.peers, aliases |-> a.aliases, resume |-> resume], now)
  IN /\ peers' = b.peers
     /\ sockets' = a.sockets
     /\ aliasToPeerId' = b.aliases
     /\ resume' = b.resume

\* the instance is evicted; the tables are rebuilt before the next handler runs
ColdStart ==
  \E order \in Orders(getWebSockets) :
    /\ ensureHydrated(order)
    /\ out' = <<>>
    /\ UNCHANGED << now, pending, alarmAt, ws, nextPeer, nextSock, nextDelivery,
                    admitted, advances, edge, limiter, client >>

\* ------------------------------------------------------------------------
\* The clock.  The handlers read the clock only to compare it with stored
\* deadlines and to stamp new records, so time moves from deadline to deadline.
\* ------------------------------------------------------------------------
Deadlines ==
  { t \in ({alarmAt} \cup { resume[k].expiresAt : k \in DOMAIN resume }
           \cup { pending[k].nextRetryAt : k \in DOMAIN pending }
           \cup { pending[k].expiresAt : k \in DOMAIN pending }
           \cup { peers[p].resumeExpiresAt : p \in DOMAIN peers }) : t > now }

AdvanceTo(t) ==
  /\ t > now
  /\ now' = t
  /\ advances' = advances + 1
  /\ out' = <<>>
  /\ UNCHANGED << peers, sockets, aliasToPeerId, resume, pending, alarmAt, ws,
                  nextPeer, nextSock, nextDelivery, admitted, edge, limiter, client >>

\* ------------------------------------------------------------------------
\* Specification
\* ------------------------------------------------------------------------
Init ==
  /\ now = 0
  /\ peers = EmptyMap
  /\ sockets = EmptyMap
  /\ aliasToPeerId = EmptyMap
  /\ resume = EmptyMap
  /\ pending = EmptyMap
  /\ alarmAt = NoAlarm
  /\ ws = EmptyMap
  /\ nextPeer = 1
  /\ nextSock = 1
  /\ nextDelivery = 1
  /\ out = <<>>
  /\ admitted = <<>>
  /\ advances = 0
  /\ edge = NoEdge
  /\ limiter = NoLimiter
  /\ client = NoClient

OpenSockets == { s \in DOMAIN ws : ws[s].status = "open" }
KnownDeliveryIds == (1..MaxClientDeliveryId) \cup { k[2] : k \in DOMAIN pending }
\* users and payloads are interchangeable: the first attach and the first send
\* use a fixed one
FirstUsers == IF nextSock = 1 THEN {"u1"} ELSE Users
FirstPayloads == IF admitted = <<>> THEN {"offer"} ELSE Payloads

DoAttach ==
  /\ nextSock <= MaxSockets
  /\ \E u \in FirstUsers, n \in RawNames \cup {<<>>}, t \in 0..(nextSock - 1) : Attach(u, n, t)
DoClose == \E s \in DOMAIN ws : webSocketClose(s)
DoError == \E s \in DOMAIN ws : webSocketError(s)
DoBadMessage == \E s \in OpenSockets : BadMessage(s)
DoPing == \E s \in OpenSockets : HeartbeatPing(s, 1)
DoUnsupported == \E s \in OpenSockets, r \in RequestIds : Unsupported(s, r)
DoClaim == \E s \in OpenSockets, n \in RawNames, r \in RequestIds : DiscoveryClaim(s, n, r)
DoResolve == \E s \in OpenSockets, n \in RawNames, r \in RequestIds : DiscoveryResolve(s, n, r)
DoSend ==
  /\ Len(admitted) < MaxSends
  /\ \E s \in OpenSockets, to \in 0..(nextPeer - 1), pl \in FirstPayloads,
        d \in 0..MaxClientDeliveryId, r \in RequestIds : SignalSend(s, to, pl, d, r)
DoAck == \E s \in OpenSockets, d \in KnownDeliveryIds : SignalAck(s, d)
DoAlarm == alarm
DoAdvance == advances < MaxAdvances /\ \E t \in Deadlines : AdvanceTo(t)

\* every operation of the room
Next ==
  \/ DoAttach \/ DoClose \/ DoError \/ DoBadMessage \/ DoPing \/ DoUnsupported
  \/ DoClaim \/ DoResolve \/ DoSend \/ DoAck \/ DoAlarm \/ ColdStart \/ DoAdvance

Spec == Init /\ [][Next]_vars

\* ------------------------------------------------------------------------
\* The relay: attach without a token name, departure, send, ack, timer,
\* eviction, clock
\* ------------------------------------------------------------------------
\* connections are opened by alternating users; a connection that presents a
\* token may also be opened by the user the token was issued to
RelayUser == IF nextSock % 2 = 1 THEN "u1" ELSE "u2"
TokenOwners(t) == { peers[p].userId : p \in { q \in DOMAIN peers : peers[q].resumeToken = t } }
RelayAttach ==
  /\ nextSock <= MaxSockets
  /\ \E t \in 0..(nextSock - 1) : \E u \in {RelayUser} \cup TokenOwners(t) :
       Attach(u, <<>>, t)
RelaySend ==
  /\ Len(admitted) < MaxSends
  /\ \E s \in OpenSockets, to \in 1..(nextPeer - 1), pl \in FirstPayloads,
        d \in 1..MaxClientDeliveryId : SignalSend(s, to, pl, d, "none")

\* one socket at a time is between its error event and its close event
RelayError ==
  /\ \A x \in DOMAIN ws : ws[x].status # "errored"
  /\ DoError

NextRelay ==
  \/ RelayAttach \/ DoClose \/ RelayError \/ RelaySend \/ DoAck \/ DoAlarm
  \/ ColdStart \/ DoAdvance

SpecRelay == Init /\ [][NextRelay]_vars

\* ------------------------------------------------------------------------
\* Sessions: attach with or without a token name and a resume token,
\* heartbeat, alias claim, close, timer, clock; no eviction, so a detached
\* peer's lastSeenAt is the time its socket closed
\* ------------------------------------------------------------------------
NextSession == DoAttach \/ DoClose \/ DoPing \/ DoAlarm \/ DoAdvance

SpecSession == Init /\ [][NextSession]_vars

\* ------------------------------------------------------------------------
\* Aliases: attach with or without a token name and a resume token, alias
\* claim, close, error, timer, eviction, clock
\* ------------------------------------------------------------------------
AliasAttach ==
  /\ nextSock <= MaxSockets
  /\ \E t \in 0..(nextSock - 1), n \in { <<>>, <<"b", "a">> } :
       \E u \in {RelayUser} \cup TokenOwners(t) : Attach(u, n, t)
AliasClaim ==
  \E s \in OpenSockets, n \in { <<" ", "A", "b">>, <<"a", "@">> } : DiscoveryClaim(s, n, "r1")

NextAlias ==
  \/ AliasAttach \/ AliasClaim \/ DoClose \/ RelayError \/ DoAlarm \/ ColdStart
  \/ DoAdvance

SpecAlias == Init /\ [][NextAlias]_vars

\* ------------------------------------------------------------------------
\* Garbage collection: attach, close, timer, clock.  The clock moves on to
\* every time the room has stored, as long as one is ahead, and the platform
\* runs the alarm handler once the armed time has been reached
\* ------------------------------------------------------------------------
GCAdvance == \E t \in Deadlines : AdvanceTo(t)

NextGC == AliasAttach \/ DoClose \/ DoAlarm \/ GCAdvance

SpecGC == Init /\ [][NextGC]_vars /\ WF_vars(alarm) /\ WF_vars(GCAdvance)

\* ------------------------------------------------------------------------
\* Retries: attach, close, send, timer, and a clock that advances to the time
\* the timer is armed at
\* ------------------------------------------------------------------------
RetryAdvance ==
  /\ advances < MaxRetryAdvances
  /\ alarmAt > now
  /\ AdvanceTo(alarmAt)

RetryAttach ==
  /\ nextSock <= MaxRetrySockets
  /\ RelayAttach

NextRetry == RetryAttach \/ DoClose \/ RelaySend \/ DoAlarm \/ RetryAdvance

SpecRetry == Init /\ [][NextRetry]_vars

\* ------------------------------------------------------------------------
\* Expiry: attach, close, send, ack, timer, and a clock that moves on to the
\* time the timer is armed at.  The platform runs the alarm handler once the
\* armed time has been reached, and time does not stop; the clients act
\* during the first MaxExpiryEvents periods of the timer
\* ------------------------------------------------------------------------
ExpiryAdvance == alarmAt > now /\ AdvanceTo(alarmAt)

SpecExpiry ==
  /\ Init
  /\ [][ \/ advances < MaxExpiryEvents /\ (RetryAttach \/ DoClose \/ RelaySend \/ DoAck)
         \/ DoAlarm \/ ExpiryAdvance ]_vars
  /\ WF_vars(alarm) /\ WF_vars(ExpiryAdvance)

\* ------------------------------------------------------------------------
\* Messages and failures: attach, close, every request that is answered with
\* a requestId, sends that reuse a deliveryId, a storage.put that rejects and
\* a socket.send that throws
\* ------------------------------------------------------------------------
\* signal.send whose storage.put of the PendingDelivery rejects: the handler
\* has set lastSeenAt, the rejection is not caught, nothing is written
\* a failing storage.put that comes after the admission ack
SignalSendPutFails_AckFirst(s, toPeerId, requestId) ==
  /\ ws[s].status = "open" /\ ~SessionMissing(s) /\ toPeerId \in DOMAIN peers
  /\ peers' = Touch(peers, peerIdForSocket(s))
  /\ ReplyOnly(<< Frame(s, SignalAcked(1, peerIdForSocket(s), now)) >>)

SignalSendPutFails(s, toPeerId, requestId) ==
  /\ ws[s].status = "open"
  /\ ~SessionMissing(s)
  /\ toPeerId \in DOMAIN peers
  /\ peers' = Touch(peers, peerIdForSocket(s))
  /\ ReplyOnly(<<>>)

\* discovery.claim of a free alias during which socket.send throws on socket
\* x: the alias is assigned and stored, the frames before the one for x are
\* written, the exception leaves send, broadcast and the handler uncaught
DiscoveryClaimSendThrows(s, name, requestId, x) ==
  /\ ws[s].status = "open"
  /\ ~SessionMissing(s)
  /\ LET peerId == peerIdForSocket(s)
         normalized == normalizeAlias(name)
         a == assignAlias(Touch(peers, peerId), aliasToPeerId, ws, sockets, peerId,
                          normalized)
         frames == << Frame(s, [type |-> "discovery.claimed", name |-> normalized,
                                userId |-> a.peers[peerId].userId,
                                requestId |-> requestId]) >>
                   \o broadcast(sockets,
                                [type |-> "presence.joined",
                                 peer |-> toPeerSummary(peerId, a.peers[peerId])],
                                peerId)
         written == { i \in DOMAIN frames : \A j \in 1..i : frames[j].sock # x }
     IN /\ normalized # NoAlias
        /\ a.err = ""
        /\ \E i \in DOMAIN frames : frames[i].sock = x
        /\ peers' = a.peers
        /\ aliasToPeerId' = a.aliases
        /\ ws' = a.ws
        /\ out' = [i \in 1..Cardinality(written) |-> frames[i]]
        /\ UNCHANGED << now, sockets, resume, pending, alarmAt, nextPeer, nextSock,
                        nextDelivery, admitted, advances, edge, limiter, client >>

MessagesAttach ==
  /\ nextSock <= MaxMessagesSockets
  /\ Attach(RelayUser, <<>>, NoToken)
MessagesSend ==
  /\ Len(admitted) < MaxMessagesSends
  /\ \E s \in OpenSockets, to \in 0..(nextPeer - 1), pl \in FirstPayloads,
        d \in 1..MaxClientDeliveryId : SignalSend(s, to, pl, d, "r1")

SpecMessages ==
  Init /\ [][ \/ MessagesAttach \/ DoUnsupported \/ AliasClaim \/ DoResolve
              \/ MessagesSend
              \/ \E s \in OpenSockets, to \in 1..(nextPeer - 1) :
                   SignalSendPutFails(s, to, "r1")
              \/ \E s \in OpenSockets, x \in OpenSockets :
                   DiscoveryClaimSendThrows(s, <<"b", "a">>, "r1", x) ]_vars

\* ------------------------------------------------------------------------
\* Deliveries: attach with or without a resume token, close, two sends that
\* may name the same deliveryId and any peerId, ack, timer, clock
\* ------------------------------------------------------------------------
SpecDelivery ==
  Init /\ [][RetryAttach \/ DoClose \/ MessagesSend \/ DoAck \/ DoAlarm \/ DoAdvance]_vars

\* ------------------------------------------------------------------------
\* Failed admissions: attach, sends to any peerId, sends whose storage.put
\* fails, clock
\* ------------------------------------------------------------------------
SpecPutFailure ==
  Init /\ [][ \/ MessagesAttach \/ MessagesSend \/ DoAdvance
              \/ \E s \in OpenSockets, to \in 1..(nextPeer - 1) :
                   SignalSendPutFails(s, to, "r1") ]_vars

\* ------------------------------------------------------------------------
\* The front door (worker fetch): join tokens, /token/issue and /ws/{roomId}
\* ------------------------------------------------------------------------
JOIN_TOKEN_SECRET == "k"          \* env.JOIN_TOKEN_SECRET
Absent == "absent"                \* a header, body field or variable that is not there
NoJoinToken == [parts |-> 0]      \* parseTokenFromRequest returned null
MalformedToken == [parts |-> 2]   \* a token that is not three dot-separated parts
NoRoom == "no room"               \* no room instance was called
NoExp == -1                       \* payload.exp is missing or is not a number

\* A token is written as its three parts: the header and the payload are the
\* JSON values that base64url(utf8(JSON.stringify(.))) carries, the signature
\* is the byte string of the third part.
\* HMAC-SHA256: the signature is a function of the secret and of the signed
\* input (header.payload), and differs when either differs
hmacSha256(secret, data) == [secret |-> secret, data |-> data]

\* signs with a fixed secret of its own
signJoinToken_OwnSecret(payload, secret) ==
  [parts |-> 3, header |-> [alg |-> "HS256", typ |-> "JWT"], payload |-> payload,
   signature |-> hmacSha256("own", << [alg |-> "HS256", typ |-> "JWT"], payload >>)]

signJoinToken(payload, secret) ==
  [parts |-> 3, header |-> [alg |-> "HS256", typ |-> "JWT"], payload |-> payload,
   signature |-> hmacSha256(secret, << [alg |-> "HS256", typ |-> "JWT"], payload >>)]

\* a comparison that accepts every signature
timingSafeEqual_Always(a, b) == TRUE

timingSafeEqual(a, b) == a = b

\* result [ok, error, payload]
verifyJoinToken(token, secret, expectedRoom, nowEpochSeconds) ==
  IF token.parts # 3
  THEN [ok |-> FALSE, error |-> "Malformed token"]
  ELSE IF ~timingSafeEqual(token.signature,
                            hmacSha256(secret, << token.header, token.payload >>))
  THEN [ok |-> FALSE, error |-> "Invalid signature"]
  ELSE IF token.header.alg # "HS256" \/ token.header.typ # "JWT"
  THEN [ok |-> FALSE, error |-> "Unsupported token header"]
  ELSE IF token.payload.sub = "" \/ token.payload.room = "" \/ token.payload.exp = NoExp
  THEN [ok |-> FALSE, error |-> "Invalid token payload"]
  ELSE IF token.payload.exp <= nowEpochSeconds
  THEN [ok |-> FALSE, error |-> "Token expired"]
  ELSE IF expectedRoom # "" /\ token.payload.room # expectedRoom
  THEN [ok |-> FALSE, error |-> "Token room mismatch"]
  ELSE [ok |-> TRUE, error |-> "", payload |-> token.payload]

\* Math.floor(Date.now() / 1_000)
EpochSeconds(t) == t \div 1000

toLowerCase(v) == CASE v = "TRUE" -> "true" [] OTHER -> v
toBoolean(value, fallback) == IF value = Absent THEN fallback ELSE toLowerCase(value) = "true"

\* --- inputs of the front door ---------------------------------------------
RoomIds == {ROOM, "S"}
TokenExps == {30, 31}             \* exp claims, epoch seconds
JoinPayloads == [sub : {"u1", ""}, room : RoomIds, name : {<<>>, <<"b", "a">>}, exp : TokenExps]
\* tokens a client may present: signed with the secret of the deployment,
\* signed with another secret, a signature taken from a token for the other
\* room, and a malformed token
PlainPayload == [sub |-> "u1", room |-> ROOM, name |-> <<>>, exp |-> 31]
JoinTokens ==
  { signJoinToken(p, JOIN_TOKEN_SECRET) : p \in { q \in JoinPayloads : q.sub = "u1" } }
  \cup { signJoinToken([PlainPayload EXCEPT !.sub = ""], JOIN_TOKEN_SECRET),
         signJoinToken(PlainPayload, "guess"),
         [signJoinToken(PlainPayload, JOIN_TOKEN_SECRET) EXCEPT
            !.signature = signJoinToken([PlainPayload EXCEPT !.room = "S"],
                                        JOIN_TOKEN_SECRET).signature],
         MalformedToken }
ClientNames == { <<>>, <<" ", "A", "b">> }   \* x-auth-name as sent by the client
\* upgrades with any token, name and room, presenting no resume token or the
\* newest one, and one request that is not an upgrade
WsRequests ==
  [roomId : RoomIds, upgrade : {TRUE}, token : JoinTokens \cup {NoJoinToken},
   name : ClientNames, resumeToken : {NoToken, nextSock - 1}]
  \cup { [roomId |-> ROOM, upgrade |-> FALSE, token |-> signJoinToken(PlainPayload, JOIN_TOKEN_SECRET),
          name |-> <<>>, resumeToken |-> NoToken] }

IssuerEnvs ==
  [ALLOW_DEV_TOKEN_ISSUER : {Absent, "true", "TRUE", "false"},
   DEV_ISSUER_SECRET : {Absent, "s1"},
   INTERNAL_API_SECRET : {"", "s2"}]
NoBody == [userId |-> Absent, roomId |-> Absent]
NoTtl == -1                       \* body.ttlSeconds undefined
IssueBodies == { NoBody } \cup [userId : {"u1"}, roomId : {ROOM}, name : {<<>>}, ttlSeconds : {NoTtl, 1}]
IssueRequests ==
  [devSecret : {Absent, "", "s1", "zz"}, internalSecret : {Absent, "s2"}, body : IssueBodies]

\* --- POST /token/issue (worker fetch) ------------------------------------
\* result [status, code, token]
IssueResponse(env, req, t) ==
  IF ~toBoolean(env.ALLOW_DEV_TOKEN_ISSUER, FALSE)
  THEN [status |-> 403, code |-> "DEV_ISSUER_DISABLED", token |-> NoJoinToken]
  ELSE
    LET providedSecret == IF req.devSecret # Absent THEN req.devSecret ELSE req.internalSecret
        validSecrets == { c \in {env.DEV_ISSUER_SECRET, env.INTERNAL_API_SECRET} :
                            c # Absent /\ c # "" }
    IN IF providedSecret # Absent /\ providedSecret # "" /\ providedSecret \notin validSecrets
       THEN [status |-> 403, code |-> "FORBIDDEN", token |-> NoJoinToken]
       ELSE IF req.body.userId = Absent \/ req.body.roomId = Absent
       THEN [status |-> 400, code |-> "BAD_REQUEST", token |-> NoJoinToken]
       ELSE LET ttl == IF req.body.ttlSeconds = NoTtl THEN 120 ELSE req.body.ttlSeconds
                ttlSeconds == IF ttl < 30 THEN 30 ELSE IF ttl > 600 THEN 600 ELSE ttl
                nowS == EpochSeconds(t)
            IN [status |-> 200, code |-> "",
                token |-> signJoinToken([sub |-> req.body.userId, room |-> req.body.roomId,
                                         name |-> req.body.name, exp |-> nowS + ttlSeconds],
                                        JOIN_TOKEN_SECRET)]

TokenIssue(env, req) ==
  /\ edge' = [route |-> "issue", at |-> now, env |-> env, req |-> req,
              response |-> IssueResponse(env, req, now)]
  /\ out' = <<>>
  /\ UNCHANGED << now, peers, sockets, aliasToPeerId, resume, pending, alarmAt, ws,
                  nextPeer, nextSock, nextDelivery, admitted, advances, limiter, client >>

\* --- /ws/{roomId} (worker fetch) -----------------------------------------
\* the headers of the request the worker builds for the room: the client's
\* headers with x-auth-user-id and x-auth-room-id set, and x-auth-name set when
\* the token has a name
ForwardedHeaders(req, payload) ==
  [userId |-> payload.sub, roomId |-> payload.room,
   name |-> IF payload.name # <<>> THEN payload.name ELSE req.name]

Refused(req, status, code) ==
  /\ edge' = [route |-> "ws", at |-> now, req |-> req, status |-> status, code |-> code,
              forwardedTo |-> NoRoom]
  /\ out' = <<>>
  /\ UNCHANGED << now, peers, sockets, aliasToPeerId, resume, pending, alarmAt, ws,
                  nextPeer, nextSock, nextDelivery, admitted, advances, limiter, client >>

WsRoute(req) ==
  IF ~req.upgrade THEN Refused(req, 426, "EXPECTED_WEBSOCKET")
  ELSE IF req.token = NoJoinToken THEN Refused(req, 401, "UNAUTHORIZED")
  ELSE LET v == verifyJoinToken(req.token, JOIN_TOKEN_SECRET, req.roomId, EpochSeconds(now))
       IN IF ~v.ok THEN Refused(req, 401, "UNAUTHORIZED")
          ELSE LET headers == ForwardedHeaders(req, v.payload)
               IN /\ edge' = [route |-> "ws", at |-> now, req |-> req, status |-> 101, code |-> "",
                              forwardedTo |-> req.roomId, headers |-> headers,
                              payload |-> v.payload]
                  /\ IF req.roomId = ROOM
                     THEN fetch(headers.userId, headers.name, req.resumeToken)
                     ELSE \* the instance of another room, whose state is not kept here
                          /\ out' = <<>>
                          /\ UNCHANGED << now, peers, sockets, aliasToPeerId, resume, pending,
                                          alarmAt, ws, nextPeer, nextSock, nextDelivery,
                                          admitted, advances, limiter, client >>

DoTokenIssue == \E env \in IssuerEnvs, req \in IssueRequests : TokenIssue(env, req)
DoWsRoute ==
  /\ nextSock <= MaxEdgeSockets
  /\ \E req \in WsRequests : WsRoute(req)

\* the room behind its front door
NextEdge == DoWsRoute \/ DoClose \/ DoAdvance

SpecEdge == Init /\ [][NextEdge]_vars

\* the token issuer, with a clock that ticks in seconds
IssueTick == now < MaxIssueTime /\ AdvanceTo(now + 1000)

NextIssue == DoTokenIssue \/ IssueTick

SpecIssue == Init /\ [][NextIssue]_vars

\* --- the token codec on its own, one call per behaviour --------------------
\* verifyJoinToken(token, secret, {expectedRoom, nowEpochSeconds}) applied to
\* tokens with any header and payload, signed with either secret, to a token
\* whose signature belongs to another payload, and to a malformed token
DoVerify ==
  \E h \in { [alg |-> "HS256", typ |-> "JWT"], [alg |-> "none", typ |-> "JWT"],
             [alg |-> "HS256", typ |-> "JOSE"] },
     c \in [sub : {"u1", ""}, room : RoomIds \cup {""}, name : {<<>>},
            exp : TokenExps \cup {NoExp}],
     signer \in {JOIN_TOKEN_SECRET, "guess"}, forged \in BOOLEAN, parts \in {2, 3},
     secret \in {JOIN_TOKEN_SECRET, "guess"}, expectedRoom \in RoomIds \cup {""},
     nowEpochSeconds \in {29, 30} :
       LET signed == [signJoinToken(c, signer) EXCEPT
                        !.header = h,
                        !.signature = hmacSha256(signer,
                                        << h, IF forged THEN PlainPayload ELSE c >>)]
           token == IF parts = 3 THEN signed ELSE MalformedToken
       IN /\ edge = NoEdge
          /\ parts = 2 => (h.alg = "none" /\ c.sub = "" /\ c.room = "" /\ c.exp = NoExp
                           /\ signer = "guess" /\ forged)
          /\ edge' = [route |-> "verify", token |-> token, secret |-> secret,
                      expectedRoom |-> expectedRoom, nowEpochSeconds |-> nowEpochSeconds,
                      result |-> verifyJoinToken(token, secret, expectedRoom,
                                                 nowEpochSeconds)]
          /\ out' = <<>>
          /\ UNCHANGED << now, peers, sockets, aliasToPeerId, resume, pending, alarmAt,
                          ws, nextPeer, nextSock, nextDelivery, admitted, advances,
                          limiter, client >>

\* signJoinToken(claims, secret) followed by verifyJoinToken of its result
\* with the same secret
DoSignVerify ==
  \E c \in [sub : {"u1", "u2"}, room : RoomIds, name : {<<>>, <<"b", "a">>},
            exp : TokenExps],
     secret \in {JOIN_TOKEN_SECRET, "guess"}, expectedRoom \in RoomIds \cup {""},
     nowEpochSeconds \in {29, 30} :
       /\ edge = NoEdge
       /\ edge' = [route |-> "sign", claims |-> c, secret |-> secret,
                   expectedRoom |-> expectedRoom, nowEpochSeconds |-> nowEpochSeconds,
                   result |-> verifyJoinToken(signJoinToken(c, secret), secret,
                                              expectedRoom, nowEpochSeconds)]
       /\ out' = <<>>
       /\ UNCHANGED << now, peers, sockets, aliasToPeerId, resume, pending, alarmAt,
                       ws, nextPeer, nextSock, nextDelivery, admitted, advances,
                       limiter, client >>

SpecToken == Init /\ [][DoVerify \/ DoSignVerify]_vars

\* ------------------------------------------------------------------------
\* RateLimitDO.fetch, as called by checkTurnRateLimit
\* ------------------------------------------------------------------------
TURN_RATE_LIMIT_MAX == 2          \* env.TURN_RATE_LIMIT_MAX of the deployment
TURN_RATE_LIMIT_WINDOW_SEC == 1   \* env.TURN_RATE_LIMIT_WINDOW_SEC of the deployment
NoCall == 0                       \* no storage operation is in progress
NoBucket == [count |-> -1, windowStartMs |-> -1]   \* storage.get returned undefined

bucketKey(key) == <<"bucket", key>>

\* the body checkTurnRateLimit sends
RateLimitRequest == [key |-> "turn", max |-> TURN_RATE_LIMIT_MAX,
                     windowSec |-> TURN_RATE_LIMIT_WINDOW_SEC]

\* input gate that lets every event through
InputGateOpen_Always(gate, c) == TRUE

\* the input gate of the Durable Object: while a storage operation of call
\* `gate` is in progress no event of another call is delivered
InputGateOpen(gate, c) == gate = NoCall \/ gate = c

SetCall(c, rec) == [limiter EXCEPT !.calls[c] = rec]

LimiterStep(l) ==
  /\ limiter' = l
  /\ out' = <<>>
  /\ UNCHANGED << now, peers, sockets, aliasToPeerId, resume, pending, alarmAt, ws,
                  nextPeer, nextSock, nextDelivery, admitted, advances, edge, client >>

\* a POST arrives; the handler runs up to `await request.json()`
CheckArrive ==
  /\ Len(limiter.calls) < MaxChecks
  /\ InputGateOpen(limiter.gate, Len(limiter.calls) + 1)
  /\ LimiterStep([limiter EXCEPT !.calls = Append(@, [pc |-> "body"])])

\* the body is parsed: now, windowMs and key are computed and storage.get is
\* started
CheckBody(c) ==
  /\ limiter.calls[c].pc = "body"
  /\ InputGateOpen(limiter.gate, c)
  /\ LET body == RateLimitRequest
     IN LimiterStep([limiter EXCEPT
          !.calls[c] = [pc |-> "get", body |-> body, now |-> now,
                        windowMs |-> body.windowSec * 1000, key |-> bucketKey(body.key)],
          !.gate = c])

\* the storage serves the read
CheckGetServed(c) ==
  /\ limiter.calls[c].pc = "get"
  /\ InputGateOpen(limiter.gate, c)
  /\ LET call == limiter.calls[c]
         stored == IF call.key \in DOMAIN limiter.storage
                   THEN limiter.storage[call.key] ELSE NoBucket
     IN LimiterStep(SetCall(c, [pc |-> "got", body |-> call.body, now |-> call.now,
                                windowMs |-> call.windowMs, key |-> call.key,
                                read |-> stored]))

\* the handler continues with the value read: the bucket is reset or kept,
\* counted, and written back
CheckCount(c) ==
  /\ limiter.calls[c].pc = "got"
  /\ InputGateOpen(limiter.gate, c)
  /\ LET call == limiter.calls[c]
         bucket0 == IF call.read = NoBucket
                       \/ call.now - call.read.windowStartMs >= call.windowMs
                    THEN [count |-> 0, windowStartMs |-> call.now]
                    ELSE call.read
         allowed == bucket0.count < call.body.max
         bucket == IF allowed THEN [bucket0 EXCEPT !.count = @ + 1] ELSE bucket0
     IN LimiterStep([limiter EXCEPT
          !.storage = Put(@, call.key, bucket),
          !.calls[c] = [pc |-> "put", body |-> call.body, now |-> call.now,
                        windowMs |-> call.windowMs, key |-> call.key,
                        bucket |-> bucket, allowed |-> allowed,
                        read |-> call.read]])

\* GET /turn-credentials answered without credentials whatever the limiter said
turnCredentials_NeverIssued(rateLimit) ==
  [status |-> 429, code |-> "RATE_LIMITED", rateLimit |-> rateLimit,
   credentials |-> FALSE]

\* GET /turn-credentials after checkTurnRateLimit returned rateLimit: 429
\* with the rateLimit object when the call is denied, else the ICE servers
\* with the TURN credentials of the deployment
turnCredentials(rateLimit) ==
  IF ~rateLimit.allowed
  THEN [status |-> 429, code |-> "RATE_LIMITED", rateLimit |-> rateLimit,
        credentials |-> FALSE]
  ELSE [status |-> 200, code |-> "", rateLimit |-> rateLimit,
        credentials |-> TRUE]

\* the write is confirmed and the response is returned
CheckRespond(c) ==
  /\ limiter.calls[c].pc = "put"
  /\ InputGateOpen(limiter.gate, c)
  /\ LET call == limiter.calls[c]
         resetAt == call.bucket.windowStartMs + call.windowMs
         left == call.body.max - call.bucket.count
     IN LimiterStep([limiter EXCEPT
          !.calls[c] = [pc |-> "done", body |-> call.body, now |-> call.now,
                        windowMs |-> call.windowMs, key |-> call.key,
                        bucket |-> call.bucket, read |-> call.read,
                        response |-> [allowed |-> call.allowed,
                                      remaining |-> IF left > 0 THEN left ELSE 0,
                                      resetAt |-> resetAt]],
          !.gate = NoCall])

DoCheckBody == \E c \in DOMAIN limiter.calls : CheckBody(c)
DoCheckGetServed == \E c \in DOMAIN limiter.calls : CheckGetServed(c)
DoCheckCount == \E c \in DOMAIN limiter.calls : CheckCount(c)
DoCheckRespond == \E c \in DOMAIN limiter.calls : CheckRespond(c)
LimiterTick == now < MaxLimiterTime /\ AdvanceTo(now + 500)

NextLimiter == CheckArrive \/ DoCheckBody \/ DoCheckGetServed \/ DoCheckCount
               \/ DoCheckRespond \/ LimiterTick

SpecLimiter == Init /\ [][NextLimiter]_vars

\* ------------------------------------------------------------------------
\* The client SDK (SignalingClient): sockets are numbered in the order they
\* are made, readyState is 0 connecting, 1 open, 2 closing, 3 closed; a
\* promise of sendSignal is [deliveryId, toPeerId, state, by, ack, calls,
\* timer], calls counting the resolve and reject calls made on it
\* ------------------------------------------------------------------------
\* every socket counts as the current one
isCurrentSocket_Always(c, k) == TRUE

isCurrentSocket(c, k) == c.socket = k

\* every ack of the deliveryId resolves the waiter
waiterMatches_AnyPeer(waiter, message) == TRUE

\* signal.acked: waiter && waiter.toPeerId === message.byPeerId
waiterMatches(waiter, message) == waiter.toPeerId = message.byPeerId

\* a step of the client; event is history: the socket event just delivered
ClientStep(c, event) ==
  /\ client' = [c EXCEPT !.event = event]
  /\ UNCHANGED << now, peers, sockets, aliasToPeerId, resume, pending, alarmAt, ws,
                  nextPeer, nextSock, nextDelivery, out, admitted, advances, edge,
                  limiter >>

\* waiter.resolve / waiter.reject on promise i, its timer cleared or fired; a
\* promise that sendSignal already rejected by throwing is not the one the
\* waiter settles
Settle(ps, i, state, by, ack) ==
  IF ps[i].by = "send"
  THEN [ps EXCEPT ![i].timer = FALSE]
  ELSE [ps EXCEPT ![i].timer = FALSE, ![i].calls = @ + 1,
                  ![i].state = IF @ = "pending" THEN state ELSE @,
                  ![i].by = IF ps[i].state = "pending" THEN by ELSE @,
                  ![i].ack = IF ps[i].state = "pending" THEN ack ELSE @]

NoAck == [type |-> "none"]

\* openSocket up to its first await: the call waits for options.getJoinToken();
\* opening counts the calls that are waiting
awaitJoinToken(c) == [c EXCEPT !.opening = @ + 1, !.emitted = << >>]

\* openSocket after the await: a new socket becomes the current one, the
\* previous one is closed with 1012 when it is connecting or open
openSocket(c) ==
  LET k == Len(c.readyState) + 1
      rs == IF c.socket # 0 /\ c.readyState[c.socket] <= 1
            THEN [c.readyState EXCEPT ![c.socket] = 2] ELSE c.readyState
  IN [c EXCEPT !.socket = k, !.readyState = Append(rs, 0), !.opening = @ - 1,
               !.emitted = << >>]

\* getJoinToken resolves and a waiting openSocket call goes on
JoinTokenResolved ==
  /\ client.opening > 0
  /\ ClientStep(openSocket(client), << >>)

connect ==
  /\ ~client.connectPromise
  /\ Len(client.readyState) + client.opening < MaxClientSockets
  /\ ClientStep(awaitJoinToken([client EXCEPT !.shouldReconnect = TRUE,
                                              !.connectPromise = TRUE]), << >>)

\* the open event of socket k
SocketOpen(k) ==
  /\ client.readyState[k] = 0
  /\ ClientStep([client EXCEPT !.readyState[k] = 1, !.emitted = << >>], << k, "open" >>)

\* handleServerMessage
handleServerMessage(c, message) ==
  CASE message.type = "session.welcome" ->
         [c EXCEPT !.peerId = message.peerId, !.resumeToken = message.resumeToken,
                   !.connectPromise = FALSE,
                   !.emitted = << IF c.peerId = message.peerId THEN "reconnected"
                                  ELSE "connected" >>]
    [] message.type = "signal.acked" ->
         LET known == message.deliveryId \in DOMAIN c.deliveryWaiters
             i == c.deliveryWaiters[message.deliveryId]
         IN IF known /\ waiterMatches(c.promises[i], message)
            THEN [c EXCEPT !.promises = Settle(@, i, "resolved", "ack", message),
                           !.deliveryWaiters = Remove(@, message.deliveryId),
                           !.emitted = << "signalAcked" >>]
            ELSE [c EXCEPT !.emitted = << "signalAcked" >>]
    [] OTHER -> [c EXCEPT !.emitted = << "error" >>]

\* a message event of socket k
SocketMessage(k, message) ==
  /\ client.readyState[k] \in {1, 2}
  /\ ClientStep(IF isCurrentSocket(client, k)
                THEN handleServerMessage(client, message)
                ELSE [client EXCEPT !.emitted = << >>], << k, "message" >>)

\* the error event of socket k
SocketError(k) ==
  /\ client.readyState[k] # 3
  /\ ClientStep([client EXCEPT
       !.emitted = IF isCurrentSocket(client, k) THEN << "error" >> ELSE << >>],
       << k, "error" >>)

\* the close event of socket k, handleSocketClosed with reconnect enabled
SocketClose(k) ==
  /\ client.readyState[k] # 3
  /\ ClientStep(IF isCurrentSocket(client, k)
                THEN [client EXCEPT !.readyState[k] = 3, !.socket = 0,
                                    !.emitted = << "disconnected" >>,
                                    !.connectPromise =
                                       @ /\ (client.peerId # "" \/ client.shouldReconnect),
                                    !.reconnectTimer = client.shouldReconnect]
                ELSE [client EXCEPT !.readyState[k] = 3, !.emitted = << >>],
                << k, "close" >>)

\* the reconnect timer fires
ReconnectTimer ==
  /\ client.reconnectTimer
  /\ Len(client.readyState) + client.opening < MaxClientSockets
  /\ LET c == [client EXCEPT !.reconnectTimer = FALSE, !.emitted = << >>]
     IN ClientStep(IF ~c.shouldReconnect
                      \/ (c.socket # 0 /\ c.readyState[c.socket] <= 1)
                   THEN c ELSE awaitJoinToken(c), << >>)

\* sendSignal(toPeerId, payload, {deliveryId}) with waitForPeerAck: the waiter
\* is registered, then send throws unless the current socket is open
sendSignal(toPeerId, deliveryId) ==
  /\ Len(client.promises) < MaxClientSends
  /\ LET i == Len(client.promises) + 1
         sent == client.socket # 0 /\ client.readyState[client.socket] = 1
         promise == [deliveryId |-> deliveryId, toPeerId |-> toPeerId,
                     state |-> IF sent THEN "pending" ELSE "rejected",
                     by |-> IF sent THEN "" ELSE "send", ack |-> NoAck,
                     calls |-> IF sent THEN 0 ELSE 1, timer |-> TRUE]
     IN ClientStep([client EXCEPT !.promises = Append(@, promise),
                                  !.deliveryWaiters = Put(@, deliveryId, i),
                                  !.emitted = << >>], << >>)

\* the deliveryAckTimeout timer of promise i fires
DeliveryTimeout(i) ==
  /\ client.promises[i].timer
  /\ ClientStep([client EXCEPT
       !.deliveryWaiters = Remove(@, client.promises[i].deliveryId),
       !.promises = Settle(@, i, "rejected", "timeout", NoAck),
       !.emitted = << >>], << >>)

RECURSIVE RejectWaiters(_, _)
RejectWaiters(ps, is) ==
  IF is = {} THEN ps
  ELSE LET i == CHOOSE x \in is : TRUE
       IN RejectWaiters(Settle(ps, i, "rejected", "close", NoAck), is \ {i})

\* close(): no reconnect, the socket is closed and dropped, every registered
\* waiter is rejected
close ==
  /\ client.socket # 0 \/ client.opening > 0 \/ client.reconnectTimer
  /\ ClientStep([client EXCEPT
       !.shouldReconnect = FALSE, !.reconnectTimer = FALSE,
       !.readyState = IF client.socket # 0 /\ @[client.socket] <= 1
                      THEN [@ EXCEPT ![client.socket] = 2] ELSE @,
       !.socket = 0, !.connectPromise = FALSE, !.peerId = "",
       !.promises = RejectWaiters(@, { client.deliveryWaiters[d] :
                                        d \in DOMAIN client.deliveryWaiters }),
       !.deliveryWaiters = << >>, !.emitted = << >>], << >>)

\* what the server may write to socket k: a welcome with the resume token of
\* that attach, acks of both deliveryIds by the client itself or by a target,
\* and a free-standing error frame
ServerMessages(k) ==
  { [type |-> "session.welcome", peerId |-> "A", resumeToken |-> k],
    [type |-> "error"] }
  \cup [type : {"signal.acked"}, deliveryId : {1, 2}, byPeerId : {"A", "B", "C"}]

SpecClient ==
  Init /\ [][ \/ connect \/ JoinTokenResolved \/ ReconnectTimer \/ close
              \/ \E k \in DOMAIN client.readyState :
                   \/ SocketOpen(k) \/ SocketError(k) \/ SocketClose(k)
                   \/ \E m \in ServerMessages(k) : SocketMessage(k, m)
              \/ \E to \in {"B", "C"}, d \in {1, 2} : sendSignal(to, d)
              \/ \E i \in DOMAIN client.promises : DeliveryTimeout(i) ]_vars

\* ------------------------------------------------------------------------
\* Properties
\* ------------------------------------------------------------------------
IsFrame(i, type) == out[i].frame.type = type

\* C1: every signal.message frame written (immediate delivery, timer retry,
\* replay on resume) is written to a socket of the peer named by its toPeerId,
\* and some admitted signal.send has its deliveryId, toPeerId and payload and
\* was submitted on a socket whose peer and verified user are the frame's
\* fromPeerId and fromUserId.
C1_FramesFromAdmittedSends ==
  \A i \in DOMAIN out :
    IsFrame(i, "signal.message") =>
      LET f == out[i].frame IN
      /\ out[i].sock \in DOMAIN ws
      /\ ws[out[i].sock].tag = f.toPeerId
      /\ \E j \in DOMAIN admitted :
           /\ admitted[j].deliveryId = f.deliveryId
           /\ admitted[j].toPeerId = f.toPeerId
           /\ admitted[j].payload = f.payload
           /\ ws[admitted[j].sock].tag = f.fromPeerId
           /\ ws[admitted[j].sock].user = f.fromUserId

\* a signal.message written to another peer for a delivery that had already
\* been attempted (a timer retry or a replay)
C1_Witness ==
  \E i \in DOMAIN out :
    /\ IsFrame(i, "signal.message")
    /\ out[i].frame.fromPeerId # out[i].frame.toPeerId
    /\ \E k \in DOMAIN pending :
         /\ k = << out[i].frame.toPeerId, out[i].frame.deliveryId >>
         /\ pending[k].attempts >= 2

Detached(ps, p) == p \in DOMAIN ps /\ ~ps[p].connected
Connected(ps, p) == p \in DOMAIN ps /\ ps[p].connected

\* C2: a step that starts and ends with a peer detached writes no
\* signal.message addressed to that peer; and the attach that resumes a
\* detached peer writes, on the socket it accepts, the signal.message of every
\* stored PendingDelivery addressed to that peer whose expiresAt is still
\* ahead of the clock.
C2_NoDeliveryWhileDetached_ReplayOnResume ==
  [][ \A p \in DOMAIN peers :
        /\ (Detached(peers, p) /\ Detached(peers', p)) =>
             \A i \in DOMAIN out' :
               out'[i].frame.type = "signal.message" => out'[i].frame.toPeerId # p
        /\ (Detached(peers, p) /\ Connected(peers', p) /\ nextSock' = nextSock + 1) =>
             \A k \in DOMAIN pending :
               (k[1] = p /\ pending[k].expiresAt > now) =>
                 \E i \in DOMAIN out' :
                   out'[i] = Frame(nextSock, SignalMessage(pending[k])) ]_vars

\* a resumed peer has just been sent, on its new socket, a delivery that was
\* admitted while it was detached
C2_Witness ==
  \E i, j \in DOMAIN out :
    /\ IsFrame(i, "session.welcome")
    /\ IsFrame(j, "signal.message")
    /\ out[j].sock = out[i].sock
    /\ out[j].frame.toPeerId = out[i].frame.peerId
    /\ \E k \in DOMAIN pending :
         /\ k = << out[j].frame.toPeerId, out[j].frame.deliveryId >>
         /\ pending[k].attempts = 1

\* C3: when a detached peer's socket closed less than RESUME_TTL ago and a
\* client attaches as the same user with the peer's current resumeToken, the
\* session.welcome of that attach names the same peerId and carries a
\* resumeToken other than the one presented, and the peer keeps its alias.
C3_ResumeWithinTtlOfClose ==
  [][ \A p \in DOMAIN peers :
        ( /\ Detached(peers, p)
          /\ now - peers[p].lastSeenAt < RESUME_TTL_MS
          /\ Attach(peers[p].userId, <<>>, peers[p].resumeToken) )
        => /\ \E i \in DOMAIN out' :
                /\ out'[i].frame.type = "session.welcome"
                /\ out'[i].frame.peerId = p
                /\ out'[i].frame.resumeToken # peers[p].resumeToken
           /\ peers'[p].alias = peers[p].alias ]_vars

\* signal.acked frames of a step that name, as byPeerId, the peer of the socket
\* they are written to
SelfAcked(o, w) ==
  { i \in DOMAIN o : /\ o[i].frame.type = "signal.acked"
                     /\ o[i].sock \in DOMAIN w
                     /\ o[i].frame.byPeerId = w[o[i].sock].tag }

\* C4: the step that admits a signal.send writes exactly one signal.acked with
\* the send's deliveryId and byPeerId of the sender on the submitting socket,
\* and no other step writes to a sender's socket a signal.acked that carries
\* the deliveryId of one of its admitted sends and its own peerId as byPeerId.
C4_ExactlyOneAckedBySelf ==
  [][ IF Len(admitted') = Len(admitted) + 1
      THEN LET a == admitted'[Len(admitted')] IN
           Cardinality({ i \in SelfAcked(out', ws') :
                           /\ out'[i].sock = a.sock
                           /\ out'[i].frame.deliveryId = a.deliveryId }) = 1
      ELSE \A i \in SelfAcked(out', ws') :
             ~ \E j \in DOMAIN admitted :
                 /\ admitted[j].deliveryId = out'[i].frame.deliveryId
                 /\ ws[admitted[j].sock].tag = out'[i].frame.byPeerId ]_vars

\* C5: every entry alias -> peerId of the alias table names a peer of the peer
\* table whose alias is that alias, and every peer with an alias has exactly
\* that entry.
C5_AliasRegistryConsistent ==
  /\ \A a \in DOMAIN aliasToPeerId :
       /\ aliasToPeerId[a] \in DOMAIN peers
       /\ peers[aliasToPeerId[a]].alias = a
  /\ \A p \in DOMAIN peers :
       peers[p].alias # NoAlias =>
         /\ peers[p].alias \in DOMAIN aliasToPeerId
         /\ aliasToPeerId[peers[p].alias] = p

HoldersOtherThan(q, alias) ==
  { p \in DOMAIN peers : p # q /\ alias # NoAlias /\ peers[p].alias = alias }

AliasOf(ps, p) == IF p \in DOMAIN ps THEN ps[p].alias ELSE NoAlias

WelcomedPeers(o) == { o[i].frame.peerId : i \in { j \in DOMAIN o : o[j].frame.type = "session.welcome" } }

\* C6: a discovery.claim by a connected peer, or an attach with a token name,
\* for an alias that is the alias field of another peer of the peer table
\* (connected or detached) is answered on that socket with error ALIAS_TAKEN
\* and leaves the alias table and the alias fields of both peers as they were.
C6_HeldAliasIsRefused ==
  [][ /\ \A s \in OpenSockets, n \in RawNames :
           ( /\ nextSock' = nextSock
             /\ ~SessionMissing(s)
             /\ HoldersOtherThan(peerIdForSocket(s), normalizeAlias(n)) # {}
             /\ DiscoveryClaim(s, n, "r1") )
           => /\ out' = << Frame(s, ErrorFrame("ALIAS_TAKEN", "r1")) >>
              /\ aliasToPeerId' = aliasToPeerId
              /\ \A p \in DOMAIN peers : peers'[p].alias = peers[p].alias
      /\ \A u \in Users, n \in RawNames, t \in 0..(nextSock - 1) :
           \A q \in WelcomedPeers(out') :
             ( /\ HoldersOtherThan(q, normalizeAlias(n)) # {}
               /\ Attach(u, n, t) ) =>
                 /\ \E i \in DOMAIN out' :
                      out'[i] = Frame(nextSock, ErrorFrame("ALIAS_TAKEN", "none"))
                 /\ aliasToPeerId' = aliasToPeerId
                 /\ peers'[q].alias = AliasOf(peers, q)
                 /\ \A p \in DOMAIN peers : p # q => peers'[p].alias = peers[p].alias ]_vars

\* C7: with a fair timer, a detached peer whose resumeExpiresAt has been
\* reached is eventually removed from the peer table, together with its
\* alias entry, unless it becomes connected again.
C7_ExpiredDetachedPeerIsCollected ==
  \A p \in 1..MaxSockets :
    (Detached(peers, p) /\ now >= peers[p].resumeExpiresAt)
      ~> ( \/ Connected(peers, p)
           \/ /\ p \notin DOMAIN peers
              /\ \A a \in DOMAIN aliasToPeerId : aliasToPeerId[a] # p )

RecordsOf(p) == { t \in DOMAIN resume : resume[t].peerId = p }

HasItsResumeRecord(p) ==
  /\ RecordsOf(p) = { peers[p].resumeToken }
  /\ LET r == resume[peers[p].resumeToken] IN
     /\ r.token = peers[p].resumeToken
     /\ r.userId = peers[p].userId
     /\ r.roomId = peers[p].roomId
     /\ r.alias = peers[p].alias

\* C8: for every detached peer, as long as the clock has not passed its
\* resumeExpiresAt, the resume store holds exactly one record with its peerId,
\* stored under its current resumeToken and carrying its userId, roomId and
\* alias.
C8_DetachedPeerHasResumeRecord ==
  \A p \in DOMAIN peers :
    (Detached(peers, p) /\ now <= peers[p].resumeExpiresAt) => HasItsResumeRecord(p)

\* C9: every stored PendingDelivery has attempts <= DELIVERY_MAX_ATTEMPTS.
C9_AttemptsBounded ==
  \A k \in DOMAIN pending : pending[k].attempts <= DELIVERY_MAX_ATTEMPTS

\* a signal.ack on socket s for deliveryId d, from the connected peer that an
\* admitted signal.send with that deliveryId was addressed to
AckOfAdmitted(s, d) ==
  /\ nextSock' = nextSock
  /\ ~SessionMissing(s)
  /\ \E j \in DOMAIN admitted :
       admitted[j].deliveryId = d /\ admitted[j].toPeerId = peerIdForSocket(s)
  /\ SignalAck(s, d)

AckedFrames(o, d, by) ==
  { i \in DOMAIN o : /\ o[i].frame.type = "signal.acked"
                     /\ o[i].frame.deliveryId = d
                     /\ o[i].frame.byPeerId = by }

\* the first ack of a delivery: the record is consumed and the only frame
\* written is one signal.acked to the socket of the sender, if it has one
FirstAckEffect(s, d) ==
  LET k == pendingStorageKey(peerIdForSocket(s), d) IN
  /\ k \notin DOMAIN pending'
  /\ Len(out') <= 1
  /\ \A i \in DOMAIN out' :
       /\ i \in AckedFrames(out', d, peerIdForSocket(s))
       /\ pending[k].fromPeerId \in DOMAIN sockets
       /\ out'[i].sock = sockets[pending[k].fromPeerId]

C11_TickIdempotent ==
  [][ alarm =>
        LET again == AlarmRun(pending', resume', peers', aliasToPeerId', sockets', now')
        IN /\ again.peers = peers'
           /\ again.aliases = aliasToPeerId'
           /\ again.pending = pending'
           /\ again.resume = resume'
           /\ again.nextAlarm = alarmAt'
           /\ \A i \in DOMAIN again.frames :
                again.frames[i].frame.type # "signal.message" ]_vars

\* the timer has just retried a delivery (the frames of the step are
\* signal.message frames only, and the record is due again one retry interval
\* from now)
C11_Witness ==
  /\ now > 0
  /\ out # <<>>
  /\ \A i \in DOMAIN out : IsFrame(i, "signal.message")
  /\ \E k \in DOMAIN pending :
       /\ pending[k].attempts >= 2
       /\ pending[k].nextRetryAt = now + DELIVERY_RETRY_INTERVAL_MS
  /\ alarmAt > now

\* the room holds p as connected on a socket for which no close or error event
\* has been delivered
ConnectedOnLiveSocket(p) ==
  /\ Connected(peers, p)
  /\ p \in DOMAIN sockets
  /\ \A s \in DOMAIN ws : ws[s].tag = p => ws[s].status = "open"

\* C12: an attach that presents the current resume token of a peer the room
\* holds as connected (no departure processed) re-adopts that peerId, closes
\* the previous socket with 1012 before session.welcome is written to the new
\* socket, and leaves the peer connected.
C12_Supersession ==
  [][ \A p \in DOMAIN peers :
        ( /\ nextSock' = nextSock + 1
          /\ ConnectedOnLiveSocket(p)
          /\ \E n \in RawNames \cup {<<>>} : Attach(peers[p].userId, n, peers[p].resumeToken) )
        => /\ p \in DOMAIN peers' /\ peers'[p].connected
           /\ sockets'[p] = nextSock
           /\ \E i, j \in DOMAIN out' :
                /\ i < j
                /\ out'[i] = Frame(sockets[p], [type |-> "close", code |-> 1012])
                /\ out'[j].sock = nextSock
                /\ out'[j].frame.type = "session.welcome"
                /\ out'[j].frame.peerId = p ]_vars

\* resumes of one user over socket errors, stale close events and evictions
ResumeAttach ==
  /\ nextSock <= MaxResumeSockets
  /\ \E t \in 0..(nextSock - 1) : Attach("u1", <<>>, t)

NextResume == ResumeAttach \/ DoClose \/ RelayError \/ ColdStart

SpecResume == Init /\ [][NextResume]_vars

\* token t names a stored, unexpired record of user u in this room
LiveMatchingRecord(t, u) ==
  /\ t \in DOMAIN resume
  /\ resume[t].expiresAt > now
  /\ resume[t].userId = u
  /\ resume[t].roomId = ROOM

\* C13: an attach re-adopts an existing peerId only if its resume token names
\* a stored unexpired record with the user and room of the attach, and then
\* it re-adopts the peer of that record and removes the record; every other
\* attach creates a fresh peerId; no token re-adopts a peer twice.
C13_ResumeOnlyByLiveMatchingRecord ==
  [][ nextSock' = nextSock + 1 =>
        \A u \in Users, t \in 0..(nextSock - 1) :
          ( /\ ws'[nextSock].user = u
            /\ \E n \in RawNames \cup {<<>>} : Attach(u, n, t) )
          => LET pid == ws'[nextSock].tag IN
             IF LiveMatchingRecord(t, u)
             THEN /\ pid = resume[t].peerId
                  /\ t \notin DOMAIN resume'
                  /\ nextPeer' = nextPeer
                  /\ \A x \in DOMAIN ws : ws[x].via # t
             ELSE /\ pid = nextPeer
                  /\ pid \notin DOMAIN peers
                  /\ \A k \in DOMAIN resume : resume[k].peerId # pid
                  /\ nextPeer' = nextPeer + 1 ]_vars

\* C14: an attach that presents an expired resume token writes the frames of
\* the same attach without a token, and the timer handler that runs after it
\* removes the same peers, releases the same aliases and writes the same
\* frames as it does after the attach without a token.
C14_ExpiredResumeIsFreshJoin ==
  [][ nextSock' = nextSock + 1 =>
        \A t \in DOMAIN resume, u \in Users, n \in RawNames \cup {<<>>} :
          ( /\ resume[t].expiresAt <= now
            /\ ws'[nextSock].user = u
            /\ Attach(u, n, t) )
          => LET fresh == AttachEffect(u, n, NoToken)
                 tick == AlarmRun(pending', resume', peers', aliasToPeerId', sockets', now)
                 tickFresh == AlarmRun(fresh.pending, fresh.resume, fresh.peers,
                                       fresh.aliases, fresh.sockets, now)
             IN /\ out' = fresh.out
                /\ tick.peers = tickFresh.peers
                /\ tick.aliases = tickFresh.aliases
                /\ tick.frames = tickFresh.frames ]_vars

\* the peer a presence frame is about
PresenceSubject(f) == IF f.type = "presence.joined" THEN f.peer.peerId ELSE f.peerId

\* C15: every presence.joined and presence.left frame a handler writes goes
\* to the current socket of a peer that is connected when the handler ends,
\* and never to a socket of the peer the frame is about.
C15_PresenceOnlyToOtherConnectedPeers ==
  \A i \in DOMAIN out :
    out[i].frame.type \in {"presence.joined", "presence.left"} =>
      LET s == out[i].sock
          q == ws[s].tag
      IN /\ Connected(peers, q)
         /\ q \in DOMAIN sockets /\ sockets[q] = s
         /\ ws[s].tag # PresenceSubject(out[i].frame)

\* a successful discovery.claim was re-broadcast as presence.joined while a
\* third peer was detached
C15_Witness ==
  /\ out # <<>>
  /\ out[1].frame.type = "discovery.claimed"
  /\ \E i \in DOMAIN out : IsFrame(i, "presence.joined")
  /\ \E p \in DOMAIN peers : Detached(peers, p)

\* the frames of the last handler that are presence.joined for peer p on socket s
JoinedFrames(o, s, p) ==
  { i \in DOMAIN o : /\ o[i].sock = s
                     /\ o[i].frame.type = "presence.joined"
                     /\ o[i].frame.peer.peerId = p }

\* C16: every attach writes one session.welcome to the new socket, whose peer
\* list is exactly the connected peers other than the attaching one, each
\* with its alias; and when the attaching peer was not connected before the
\* attach, the socket of every other connected peer gets exactly one
\* presence.joined for it.
C16_WelcomeListsConnectedPeers ==
  [][ nextSock' = nextSock + 1 =>
        LET s == nextSock
            pid == ws'[s].tag
            others == { q \in DOMAIN peers' : peers'[q].connected /\ q # pid }
            welcomes == { i \in DOMAIN out' : out'[i].frame.type = "session.welcome" }
        IN /\ Cardinality(welcomes) = 1
           /\ \A i \in welcomes :
                /\ out'[i].sock = s
                /\ out'[i].frame.peerId = pid
                /\ out'[i].frame.peers =
                     { [peerId |-> q, userId |-> peers'[q].userId,
                        roomId |-> peers'[q].roomId, name |-> peers'[q].alias] : q \in others }
           /\ ~Connected(peers, pid) =>
                \A q \in others :
                  /\ q \in DOMAIN sockets'
                  /\ Cardinality(JoinedFrames(out', sockets'[q], pid)) = 1 ]_vars

\* an attach was welcomed with a list that names a peer with an alias, a
\* detached peer was left out of it, and presence.joined was written
C16_Witness ==
  /\ \E i \in DOMAIN out :
       /\ IsFrame(i, "session.welcome")
       /\ \E e \in out[i].frame.peers : e.name # NoAlias
  /\ \E i \in DOMAIN out : IsFrame(i, "presence.joined")
  /\ \E p \in DOMAIN peers : Detached(peers, p)

\* C17: an attach whose token name is the alias of another peer of the room
\* writes session.welcome to the new socket and, after it, the error frame
\* ALIAS_TAKEN; the attaching peer ends connected on the new socket with no
\* alias.
C17_WelcomeThenAliasTaken ==
  [][ nextSock' = nextSock + 1 =>
        \A u \in Users, n \in RawNames, t \in 0..(nextSock - 1) :
          LET pid == ws'[nextSock].tag IN
          ( /\ ws'[nextSock].user = u
            /\ HoldersOtherThan(pid, normalizeAlias(n)) # {}
            /\ Attach(u, n, t) )
          => /\ \E i, j \in DOMAIN out' :
                  /\ i < j
                  /\ out'[i].sock = nextSock
                  /\ out'[i].frame.type = "session.welcome"
                  /\ out'[j] = Frame(nextSock, ErrorFrame("ALIAS_TAKEN", "none"))
             /\ Connected(peers', pid)
             /\ sockets'[pid] = nextSock
             /\ peers'[pid].alias = NoAlias ]_vars

\* the token is three parts, signed with the secret of the deployment, not
\* expired at time t and issued for roomId
ValidJoinToken(tok, roomId, t) ==
  /\ tok.parts = 3
  /\ tok.signature = hmacSha256(JOIN_TOKEN_SECRET, << tok.header, tok.payload >>)
  /\ tok.payload.exp > EpochSeconds(t)
  /\ tok.payload.room = roomId

\* C18: the front door calls a room for an upgrade of /ws/{roomId} only when
\* the request carries a token with a valid signature, exp after the current
\* time and room = roomId; it then calls the room named roomId with the user
\* id, the room and the name of the token's claims; every other upgrade is
\* answered 401 and reaches no room.
C18_FrontDoorIsolation ==
  (edge.route = "ws" /\ edge.req.upgrade) =>
    IF edge.forwardedTo # NoRoom
    THEN /\ ValidJoinToken(edge.req.token, edge.req.roomId, edge.at)
         /\ edge.forwardedTo = edge.req.roomId
         /\ edge.headers.userId = edge.req.token.payload.sub
         /\ edge.headers.roomId = edge.req.token.payload.room
         /\ edge.headers.name = edge.req.token.payload.name
    ELSE edge.status = 401

\* the request carries an issuer header whose value is a configured secret
CarriesConfiguredSecret(env, req) ==
  \E h \in {req.devSecret, req.internalSecret} :
    /\ h # Absent /\ h # ""
    /\ h \in {env.DEV_ISSUER_SECRET, env.INTERNAL_API_SECRET}

\* ALLOW_DEV_TOKEN_ISSUER is "true", in any letter case
IssuerEnabled(env) == env.ALLOW_DEV_TOKEN_ISSUER \in {"true", "TRUE"}

\* C19: POST /token/issue answers with a token only when
\* ALLOW_DEV_TOKEN_ISSUER is "true" and the request carries an
\* x-internal-secret or x-dev-issuer-secret header equal to a configured
\* secret; with the issuer disabled the answer is 403 DEV_ISSUER_DISABLED,
\* without a valid secret header it is 403 FORBIDDEN, in both cases without
\* a token.
C19_IssuerNeedsSecret ==
  edge.route = "issue" =>
    /\ edge.response.token # NoJoinToken =>
         /\ IssuerEnabled(edge.env)
         /\ CarriesConfiguredSecret(edge.env, edge.req)
    /\ ~IssuerEnabled(edge.env) =>
         /\ edge.response.status = 403
         /\ edge.response.code = "DEV_ISSUER_DISABLED"
         /\ edge.response.token = NoJoinToken
    /\ (IssuerEnabled(edge.env) /\ ~CarriesConfiguredSecret(edge.env, edge.req)) =>
         /\ edge.response.status = 403
         /\ edge.response.code = "FORBIDDEN"
         /\ edge.response.token = NoJoinToken

Answered == { c \in DOMAIN limiter.calls : limiter.calls[c].pc = "done" }

\* the answered calls whose time lies in the window that starts at w
InWindow(w) ==
  { c \in Answered : /\ w <= limiter.calls[c].now
                     /\ limiter.calls[c].now < w + limiter.calls[c].windowMs }

\* C20: for every window [windowStartMs, windowStartMs + window) of a
\* bucket, at most max of the calls whose time lies in it are answered
\* allowed = true, however the calls interleave.
C20_AdmissionBound ==
  \A a \in Answered :
    Cardinality({ c \in InWindow(limiter.calls[a].bucket.windowStartMs) :
                    limiter.calls[c].response.allowed })
      <= limiter.calls[a].body.max

\* max calls of one window were allowed and another call of that window was
\* refused, while a call that arrived before an answered one is still
\* waiting for its body
C20_Witness ==
  /\ \E a \in Answered :
       LET w == InWindow(limiter.calls[a].bucket.windowStartMs)
       IN /\ Cardinality({ c \in w : limiter.calls[c].response.allowed })
               = limiter.calls[a].body.max
          /\ \E c \in w : ~limiter.calls[c].response.allowed
  /\ \E i, j \in DOMAIN limiter.calls :
       i < j /\ limiter.calls[i].pc = "body" /\ limiter.calls[j].pc = "done"

\* the bucket the fixed-window reference leaves after a check at time t of a
\* stored bucket b
ReferenceBucket(b, t, window, max) ==
  LET fresh == b = NoBucket \/ t - b.windowStartMs >= window
      start == IF fresh THEN t ELSE b.windowStartMs
      count == IF fresh THEN 0 ELSE b.count
  IN [count |-> IF count < max THEN count + 1 ELSE count, windowStartMs |-> start]

ReferenceAllowed(b, t, window, max) ==
  b = NoBucket \/ t - b.windowStartMs >= window \/ b.count < max

\* the answered calls whose bucket window starts at w, in the order of the
\* counts they left
SameWindow(w) == { c \in Answered : limiter.calls[c].bucket.windowStartMs = w }

\* C21: every answered rate-limit check equals the fixed-window reference
\* applied to the bucket it read: the bucket written, the allowed flag,
\* resetAt = windowStartMs + window and remaining = max(0, max - count); a
\* denied check leaves the bucket as read; with max = 2 three checks of one
\* window are answered remaining 1, remaining 0 and denied; and a denied
\* check becomes HTTP 429 with the rateLimit object and no credentials.
C21_FixedWindowReference ==
  \A c \in Answered :
    LET call == limiter.calls[c]
        ref == ReferenceBucket(call.read, call.now, call.windowMs, call.body.max)
        ok == ReferenceAllowed(call.read, call.now, call.windowMs, call.body.max)
        left == call.body.max - ref.count
        reply == turnCredentials(call.response)
    IN /\ call.bucket = ref
       /\ call.response.allowed = ok
       /\ call.response.resetAt = ref.windowStartMs + call.windowMs
       /\ call.response.remaining = (IF left > 0 THEN left ELSE 0)
       /\ ~ok => call.bucket = call.read
       /\ ~ok => /\ reply.status = 429
                 /\ reply.rateLimit = call.response
                 /\ ~reply.credentials
       /\ ok => reply.status = 200 /\ reply.credentials
       /\ Cardinality(SameWindow(call.bucket.windowStartMs)) = 3 =>
            { << limiter.calls[d].response.allowed, limiter.calls[d].response.remaining >> :
                d \in SameWindow(call.bucket.windowStartMs) }
              = { << TRUE, 1 >>, << TRUE, 0 >>, << FALSE, 0 >> }

\* three checks of one window were answered: allowed with remaining 1,
\* allowed with remaining 0, and denied, the denied one answered 429
C21_Witness ==
  \E a, b, c \in Answered :
    /\ limiter.calls[a].bucket.windowStartMs = limiter.calls[c].bucket.windowStartMs
    /\ limiter.calls[b].bucket.windowStartMs = limiter.calls[c].bucket.windowStartMs
    /\ limiter.calls[a].response = [allowed |-> TRUE, remaining |-> 1,
                                    resetAt |-> limiter.calls[c].response.resetAt]
    /\ limiter.calls[b].response.allowed /\ limiter.calls[b].response.remaining = 0
    /\ ~limiter.calls[c].response.allowed
    /\ turnCredentials(limiter.calls[c].response).status = 429

C24_StorageFailureAnswered ==
  [][ \A s \in DOMAIN ws, to \in DOMAIN peers :
        SignalSendPutFails(s, to, "r1") =>
          /\ \E i \in DOMAIN out' :
               /\ out'[i].sock = s
               /\ out'[i].frame.type = "error"
               /\ out'[i].frame.code = "STORAGE"
          /\ ws'[s].status = "open" ]_vars

\* C25: when writing a frame to socket x fails during discovery.claim, the
\* peer of x becomes detached with a resume record and presence.left is
\* broadcast, every other socket of the operation still gets its frame, and
\* no other peer's connection state changes.
C25_WriteFailureIsDepartureOfThatPeer ==
  [][ \A s \in DOMAIN ws, x \in DOMAIN ws :
        DiscoveryClaimSendThrows(s, <<"b", "a">>, "r1", x) =>
          LET p == peerIdForSocket(x) IN
          /\ Detached(peers', p)
          /\ peers'[p].resumeToken \in DOMAIN resume'
          /\ \E i \in DOMAIN out' : /\ out'[i].frame.type = "presence.left"
                                     /\ out'[i].frame.peerId = p
          /\ x # s => \E i \in DOMAIN out' : /\ out'[i].sock = s
                                              /\ out'[i].frame.type = "discovery.claimed"
          /\ \A q \in DOMAIN sockets :
               (q # p /\ q # peerIdForSocket(s)) =>
                 \E i \in DOMAIN out' : /\ out'[i].sock = sockets[q]
                                        /\ out'[i].frame.type = "presence.joined"
          /\ \A q \in DOMAIN peers : q # p => peers'[q].connected = peers[q].connected ]_vars

\* the frames that answer a request: discovery.claimed, discovery.resolved
\* and the error frames of a request
AnswersRequest(f) ==
  \/ f.type \in {"discovery.claimed", "discovery.resolved"}
  \/ /\ f.type = "error"
     /\ f.code \in {"ALIAS_INVALID", "ALIAS_TAKEN", "TARGET_NOT_FOUND", "UNSUPPORTED"}

\* C26: a client message that carries a requestId and is answered by
\* discovery.claimed, discovery.resolved or an error frame ALIAS_INVALID,
\* ALIAS_TAKEN, TARGET_NOT_FOUND or UNSUPPORTED is answered with the same
\* requestId.
C26_AnswerEchoesRequestId ==
  [][ \A s \in DOMAIN ws :
        ( \/ \E n \in RawNames : DiscoveryClaim(s, n, "r1") \/ DiscoveryResolve(s, n, "r1")
          \/ \E to \in 0..nextPeer, pl \in Payloads, d \in 0..MaxClientDeliveryId :
               SignalSend(s, to, pl, d, "r1")
          \/ Unsupported(s, "r1") )
        => \A i \in DOMAIN out' :
             (out'[i].sock = s /\ AnswersRequest(out'[i].frame))
               => out'[i].frame.requestId = "r1" ]_vars

\* C30: a signal.send admitted later, whatever its sender and deliveryId,
\* leaves every stored PendingDelivery in place with its sender, payload,
\* sentAt and attempts.
C30_AdmittedDeliveryNotReplaced ==
  [][ Len(admitted') = Len(admitted) + 1 =>
        \A k \in DOMAIN pending :
          /\ k \in DOMAIN pending'
          /\ pending'[k].fromPeerId = pending[k].fromPeerId
          /\ pending'[k].payload = pending[k].payload
          /\ pending'[k].sentAt = pending[k].sentAt
          /\ pending'[k].attempts = pending[k].attempts ]_vars

\* C29: a close or error event for a socket that is not the current socket
\* of its peer, arriving while the peer is connected on another socket,
\* leaves the peer connected, keeps the peer's socket mapping, writes no
\* resume record and broadcasts no presence.left.
C29_StaleDepartureIgnored ==
  [][ \A s \in DOMAIN ws :
        LET p == peerIdForSocket(s) IN
        ( /\ Connected(peers, p)
          /\ p \in DOMAIN sockets
          /\ sockets[p] # s
          /\ webSocketClose(s) \/ webSocketError(s) )
        => /\ Connected(peers', p)
           /\ p \in DOMAIN sockets'
           /\ sockets'[p] = sockets[p]
           /\ resume' = resume
           /\ \A i \in DOMAIN out' : out'[i].frame.type # "presence.left" ]_vars

C28_StaleSocketEventsIgnored ==
  [][ \A k \in DOMAIN client.readyState :
        /\ ( /\ client.socket # k
             /\ \/ SocketOpen(k) \/ SocketError(k) \/ SocketClose(k)
                \/ \E m \in ServerMessages(k) : SocketMessage(k, m) )
           => /\ client'.emitted = << >>
              /\ client'.peerId = client.peerId
              /\ client'.resumeToken = client.resumeToken
              /\ client'.socket = client.socket
              /\ client'.reconnectTimer = client.reconnectTimer
              /\ client'.connectPromise = client.connectPromise
              /\ client'.promises = client.promises
        /\ (client.socket = k /\ SocketClose(k))
           => client'.emitted = << "disconnected" >> ]_vars

\* after a reconnect that was welcomed on the new socket, the close event of
\* an older socket has just been delivered and nothing was emitted
C28_Witness ==
  /\ client.event # << >>
  /\ client.event[2] = "close"
  /\ client.event[1] < client.socket
  /\ client.readyState[client.socket] = 1
  /\ client.resumeToken = client.socket
  /\ client.peerId = "A"
  /\ client.emitted = << >>


\* C31: with a fair timer every stored PendingDelivery is eventually deleted
\* (by the recipient's ack, by exhausted attempts or by expiry), also when
\* the recipient never reconnects or has been garbage-collected.
C31_PendingEventuallyDeleted ==
  \A p \in 1..MaxRetrySockets, d \in 1..MaxClientDeliveryId :
    (pendingStorageKey(p, d) \in DOMAIN pending)
      ~> (pendingStorageKey(p, d) \notin DOMAIN pending)

\* the delivery of a recipient that was garbage-collected has been deleted
\* by the tick at its expiry
C31_Witness ==
  /\ pending = EmptyMap
  /\ now = DELIVERY_MAX_AGE_MS
  /\ \E i \in DOMAIN admitted : admitted[i].toPeerId \notin DOMAIN peers

\* the times the stored records need the timer at
TimerTimes ==
  { Min(pending[k].nextRetryAt, pending[k].expiresAt) : k \in DOMAIN pending }
    \cup { resume[t].expiresAt : t \in DOMAIN resume }

TimerCovered ==
  TimerTimes # {} => alarmAt # NoAlarm /\ \A x \in TimerTimes : alarmAt <= x

\* C32: after every room operation, if the store holds a PendingDelivery or a
\* ResumeRecord the timer is armed no later than the earliest time any of
\* them needs it; a tick that leaves no record cancels the timer.
C32_TimerCoverage ==
  [][ /\ TimerCovered'
      /\ (alarm /\ pending' = EmptyMap /\ resume' = EmptyMap) => alarmAt' = NoAlarm ]_vars

\* a tick has retried a delivery and re-armed the timer at its next retry
C32_Witness ==
  /\ now >= DELIVERY_RETRY_INTERVAL_MS
  /\ \E k \in DOMAIN pending :
       /\ pending[k].attempts >= 2
       /\ alarmAt = pending[k].nextRetryAt
       /\ alarmAt = now + DELIVERY_RETRY_INTERVAL_MS
  /\ resume # EmptyMap

\* the aliases bound to peer p
AliasesOf(am, p) == { a \in DOMAIN am : am[a] = p }

\* C33: a tick never removes a connected peer nor its alias binding; it
\* removes a detached peer only when a stored resume record of that peer has
\* expired and carries the token the peer holds; a peer that is connected at
\* the tick (also after a resume) keeps its peerId and alias.
C33_GarbageCollectionSafe ==
  [][ alarm =>
        \A p \in DOMAIN peers :
          /\ peers[p].connected =>
               /\ p \in DOMAIN peers'
               /\ peers'[p] = peers[p]
               /\ AliasesOf(aliasToPeerId, p) \subseteq AliasesOf(aliasToPeerId', p)
          /\ p \notin DOMAIN peers' =>
               /\ ~peers[p].connected
               /\ \E t \in DOMAIN resume :
                    /\ resume[t].peerId = p
                    /\ resume[t].expiresAt <= now
                    /\ resume[t].token = peers[p].resumeToken ]_vars

\* a tick has deleted the expired resume record of a connected peer that
\* holds an alias and has collected an expired detached peer
C33_Witness ==
  /\ \E p \in DOMAIN peers :
       /\ peers[p].connected
       /\ peers[p].resumeExpiresAt <= now
       /\ peers[p].resumeToken \notin DOMAIN resume
       /\ AliasesOf(aliasToPeerId, p) # {}
  /\ \E q \in 1..(nextPeer - 1) : q \notin DOMAIN peers

\* C34: between operations a peer is marked connected if and only if the
\* socket table holds a socket for its peerId; the table holds at most one
\* socket per peerId and none for a detached peer.
C34_ConnectedIffSocketEntry ==
  /\ \A p \in DOMAIN peers : peers[p].connected <=> p \in DOMAIN sockets
  /\ \A p, q \in DOMAIN sockets : sockets[p] = sockets[q] => p = q
  /\ DOMAIN sockets \subseteq DOMAIN peers

\* a peer is connected on the socket of its resume, the socket it had before
\* is closed, and another peer is detached
C34_Witness ==
  \E p, q \in DOMAIN peers, s1, s2 \in DOMAIN ws :
    /\ peers[p].connected /\ p \in DOMAIN sockets /\ sockets[p] = s2
    /\ s1 # s2 /\ ws[s1].tag = p /\ ws[s1].status = "closed"
    /\ ~peers[q].connected /\ q \notin DOMAIN sockets

\* a signal.ack of deliveryId d handled for the connected peer of socket s
AckBy(s, d) == ~SessionMissing(s) /\ SignalAck(s, d)

\* the ack leaves every delivery other than the one keyed (acking peer, d)
AckTouchesOwnKeyOnly(s, d) ==
  /\ DOMAIN pending' \subseteq DOMAIN pending
  /\ \A k \in DOMAIN pending :
       k # pendingStorageKey(peerIdForSocket(s), d) =>
         k \in DOMAIN pending' /\ pending'[k] = pending[k]

\* C35: a signal.ack from peer X with deliveryId d deletes at most the
\* PendingDelivery keyed (X, d) and leaves every other delivery as it was; an
\* ack that finds no such delivery sends nothing and changes nothing except
\* the lastSeenAt of X.
C35_AckDeletesOwnDeliveryOnly ==
  [][ \A s \in OpenSockets, d \in KnownDeliveryIds :
        AckBy(s, d) =>
          /\ AckTouchesOwnKeyOnly(s, d)
          /\ pendingStorageKey(peerIdForSocket(s), d) \notin DOMAIN pending =>
               /\ out' = <<>>
               /\ peers' = [peers EXCEPT ![peerIdForSocket(s)].lastSeenAt = now]
               /\ UNCHANGED << sockets, aliasToPeerId, resume, pending, alarmAt, ws >> ]_vars

\* C35 as stated: an ack that finds no delivery changes nothing at all.
C35_UnknownAckChangesNothing ==
  [][ \A s \in OpenSockets, d \in KnownDeliveryIds :
        AckBy(s, d) =>
          /\ AckTouchesOwnKeyOnly(s, d)
          /\ pendingStorageKey(peerIdForSocket(s), d) \notin DOMAIN pending =>
               /\ out' = <<>>
               /\ UNCHANGED << peers, sockets, aliasToPeerId, resume, pending, alarmAt,
                               ws >> ]_vars

\* a peer has acked its delivery d while a delivery with the same deliveryId
\* addressed to another peer is stored
C35_Witness ==
  \E i \in DOMAIN out :
    /\ IsFrame(i, "signal.acked")
    /\ pendingStorageKey(out[i].frame.byPeerId, out[i].frame.deliveryId) \notin DOMAIN pending
    /\ \E k \in DOMAIN pending :
         k[2] = out[i].frame.deliveryId /\ k[1] # out[i].frame.byPeerId
    /\ \E j \in DOMAIN admitted :
         /\ admitted[j].deliveryId = out[i].frame.deliveryId
         /\ admitted[j].toPeerId = out[i].frame.byPeerId
    /\ \A j \in DOMAIN admitted : ws[admitted[j].sock].tag # out[i].frame.byPeerId

\* a signal.send to an existing peer whose storage.put fails
PutFails == \E s \in OpenSockets, to \in 1..(nextPeer - 1) : SignalSendPutFails(s, to, "r1")

\* C36: when persisting the PendingDelivery of a signal.send fails no frame
\* is written (no signal.acked, no signal.message), the pending store, the
\* alias table, the resume store and the timer are unchanged, and the peer
\* table is unchanged except for the lastSeenAt of the sender.
C36_FailedPutHasNoEffect ==
  [][ \A s \in OpenSockets, to \in 1..(nextPeer - 1) :
        SignalSendPutFails(s, to, "r1") =>
          /\ out' = <<>>
          /\ peers' = [peers EXCEPT ![peerIdForSocket(s)].lastSeenAt = now]
          /\ UNCHANGED << pending, aliasToPeerId, resume, alarmAt, sockets, admitted >> ]_vars

\* C36 as stated: the peer table is unchanged too.
C36_FailedPutChangesNoTable ==
  [][ PutFails => out' = <<>> /\ UNCHANGED << pending, peers, aliasToPeerId, resume >> ]_vars

\* the put of a send has failed after the clock moved on: no frame, no
\* record, no admission, and the sender was last seen now
C36_Witness ==
  /\ now > 0
  /\ out = <<>>
  /\ pending = EmptyMap /\ admitted = <<>> /\ aliasToPeerId = EmptyMap
  /\ \E p \in DOMAIN peers : peers[p].connected /\ peers[p].lastSeenAt = now

\* the signal.message frames a step writes for the delivery keyed k
MessageFramesFor(o, k) ==
  { i \in DOMAIN o : /\ o[i].frame.type = "signal.message"
                     /\ o[i].frame.toPeerId = k[1]
                     /\ o[i].frame.deliveryId = k[2] }

\* the step admits a signal.send whose record is stored under k
AdmitsUnder(k) ==
  /\ Len(admitted') = Len(admitted) + 1
  /\ pendingStorageKey(admitted'[Len(admitted')].toPeerId,
                       admitted'[Len(admitted')].deliveryId) = k

\* C37: the attempts of a stored PendingDelivery count the signal.message
\* frames written for it: a step adds to attempts exactly the frames it
\* writes for the delivery (at most one, to the socket of the connected
\* recipient), starting from 0 at admission; while the recipient is detached
\* no frame is written and attempts stays as it is.
C37_AttemptsCountFrames ==
  [][ \A k \in DOMAIN pending' :
        LET n == Cardinality(MessageFramesFor(out', k))
            before == IF k \in DOMAIN pending /\ ~AdmitsUnder(k)
                      THEN pending[k].attempts ELSE 0
        IN /\ pending'[k].attempts = before + n
           /\ n <= 1
           /\ n = 1 => /\ k[1] \in DOMAIN sockets' /\ Connected(peers', k[1])
                       /\ \A i \in MessageFramesFor(out', k) : out'[i].sock = sockets'[k[1]]
           /\ ~Connected(peers', k[1]) => n = 0 ]_vars

\* a delivery that was written once is still stored after a tick that found
\* its recipient detached: the retry was moved on and attempts is still 1
C37_Witness ==
  \E k \in DOMAIN pending :
    /\ pending[k].attempts = 1
    /\ pending[k].sentAt < now
    /\ pending[k].nextRetryAt = now + DELIVERY_RETRY_INTERVAL_MS
    /\ Detached(peers, k[1])
    /\ Cardinality({ s \in DOMAIN ws : ws[s].tag = k[1] }) = 1

\* the fields of a peer record that identify the session
Session(rec) ==
  [userId |-> rec.userId, alias |-> rec.alias, resumeToken |-> rec.resumeToken,
   resumeExpiresAt |-> rec.resumeExpiresAt, connected |-> rec.connected]

\* the detached peer p has a stored, unexpired resume record
HasLiveRecord(p) ==
  /\ Detached(peers, p)
  /\ peers[p].resumeToken \in DOMAIN resume
  /\ resume[peers[p].resumeToken].peerId = p
  /\ resume[peers[p].resumeToken].expiresAt > now

\* hydration agrees with the tables before the drop on peer p
RebuiltAsBefore(p) ==
  /\ p \in DOMAIN peers'
  /\ Session(peers'[p]) = Session(peers[p])
  /\ (p \in DOMAIN sockets) = (p \in DOMAIN sockets')
  /\ p \in DOMAIN sockets => sockets'[p] = sockets[p]
  /\ AliasesOf(aliasToPeerId', p) = AliasesOf(aliasToPeerId, p)

\* C38: a cold start rebuilds peer, socket and alias tables that agree with
\* the ones before the drop on every connected peer (userId, alias,
\* resumeToken, resumeExpiresAt, connected, socket, alias entries) and on
\* every detached peer with an unexpired resume record.
C38_ColdStartPreservesRoom ==
  [][ ColdStart =>
        \A p \in DOMAIN peers :
          (peers[p].connected \/ HasLiveRecord(p)) => RebuiltAsBefore(p) ]_vars

\* a signal.send from the connected peer of socket s naming toPeerId
SendBy(s, to) ==
  /\ ~SessionMissing(s)
  /\ \E pl \in Payloads, d \in 1..MaxClientDeliveryId : SignalSend(s, to, pl, d, "r1")

\* the send is answered TARGET_NOT_FOUND; nothing is stored, acked or armed
RefusedUnknownTarget(s) ==
  /\ out' = << Frame(s, ErrorFrame("TARGET_NOT_FOUND", "r1")) >>
  /\ UNCHANGED << pending, alarmAt, admitted, sockets, aliasToPeerId, resume >>

\* the send is admitted: its record is stored and the sender gets signal.acked
Admitted(s, to) ==
  /\ Len(admitted') = Len(admitted) + 1
  /\ admitted'[Len(admitted')].toPeerId = to
  /\ pendingStorageKey(to, admitted'[Len(admitted')].deliveryId) \in DOMAIN pending'
  /\ \E i \in DOMAIN out' : out'[i].sock = s /\ out'[i].frame.type = "signal.acked"

\* C39: a signal.send whose toPeerId names no peer of the room is answered
\* with error TARGET_NOT_FOUND, stores no PendingDelivery, sends no
\* signal.acked, leaves the timer alone and changes nothing except the
\* lastSeenAt of the sender; a send to a detached peer that exists is admitted.
C39_UnknownTargetRefused ==
  [][ \A s \in OpenSockets, to \in 0..(nextPeer - 1) :
        SendBy(s, to) =>
          IF to \notin DOMAIN peers
          THEN /\ RefusedUnknownTarget(s)
               /\ peers' = [peers EXCEPT ![peerIdForSocket(s)].lastSeenAt = now]
          ELSE Admitted(s, to) ]_vars

\* C39 as stated: the refused send has no effect besides the error frame.
C39_RefusedSendHasNoOtherEffect ==
  [][ \A s \in OpenSockets, to \in 0..(nextPeer - 1) :
        SendBy(s, to) =>
          IF to \notin DOMAIN peers
          THEN RefusedUnknownTarget(s) /\ peers' = peers
          ELSE Admitted(s, to) ]_vars

\* a send has just been refused in a room one of whose peers has been
\* garbage-collected
C39_Witness ==
  /\ Len(out) = 1
  /\ out[1].frame = ErrorFrame("TARGET_NOT_FOUND", "r1")
  /\ \E q \in 1..(nextPeer - 1) : q \notin DOMAIN peers

\* C40: while close() is the last call the application made (shouldReconnect
\* is false before and after the step) the client makes no socket and emits
\* neither connected nor reconnected, and close() leaves no delivery waiter
\* registered: every waiter it found is rejected.
C40_NoSocketAfterClose ==
  [][ /\ (~client.shouldReconnect /\ ~client'.shouldReconnect) =>
           /\ Len(client'.readyState) = Len(client.readyState)
           /\ \A i \in DOMAIN client'.emitted :
                client'.emitted[i] \notin {"connected", "reconnected"}
      /\ close =>
           /\ client'.deliveryWaiters = << >>
           /\ \A d \in DOMAIN client.deliveryWaiters :
                client'.promises[client.deliveryWaiters[d]].state = "rejected" ]_vars
====
